---------------------------- MODULE Spec2Model ----------------------------
(***************************************************************************)
(* Model of the SVG path compiler of oksvg (svgp.go): PathCursor and its   *)
(* CompilePath / addSeg methods, as called from ReadIcon (svgd.go).        *)
(*                                                                         *)
(* Numbers.  The cursor keeps float64 coordinates.  The model represents a *)
(* coordinate by an integer count of 1/128 pixel, so every float the model *)
(* handles is an exactly representable dyadic value and float addition,    *)
(* doubling and negation are exact.  fixed.Int26_6(v*64) truncates toward  *)
(* zero; on the 1/128 grid that is truncation of v/2 (Fix below), so the   *)
(* conversion really loses the last bit.                                   *)
(*                                                                         *)
(* Path text.  CompilePath cuts the text at letters; one cut piece is a    *)
(* command letter followed by number text.  The model draws the pieces one *)
(* at a time: a letter, and a parameter text given by the floats its       *)
(* tokens parse to plus a flag telling whether strconv.ParseFloat rejects  *)
(* the token after them.                                                   *)
(***************************************************************************)
EXTENDS Integers, Sequences, FiniteSets, TLC

(***************************************************************************)
(* Bounds of the model.                                                    *)
(***************************************************************************)
\* number of command segments walked in one CompilePath call
MaxSegs == 3
\* number of parameter sets after one command letter
MaxSets == 2
\* number of cubic splines one arc may be cut into (segs in AddArcFromAC)
MaxArcSegs == 2

(***************************************************************************)
(* ErrorMode constants (iota).                                             *)
(***************************************************************************)
IgnoreErrorMode == 0
WarnErrorMode == 1
StrictErrorMode == 2

ErrorModes == {IgnoreErrorMode, WarnErrorMode, StrictErrorMode}

\* errors CompilePath can return; NoErr is Go's nil, PanicErr a run-time
\* panic (index out of range) that unwinds CompilePath
NoErr == "nil"
paramMismatchError == "Param mismatch"
commandUnknownError == "Unknown command"
ParseFloatError == "strconv.ParseFloat: invalid syntax"
PanicErr == "panic: index out of range"

(***************************************************************************)
(* Command letters.                                                        *)
(***************************************************************************)
RelKeys == {"m", "l", "h", "v", "q", "t", "c", "s", "a"}
AbsKeys == {"M", "L", "H", "V", "Q", "T", "C", "S", "A"}
CloseKeys == {"z", "Z"}
KnownKeys == RelKeys \cup AbsKeys \cup CloseKeys
\* a letter for which unicode.IsLetter holds, not 'e', and not a command
UnknownKeys == {"x"}
AllKeys == KnownKeys \cup UnknownKeys

\* the upper-case form of a command letter
Upper(k) ==
    CASE k = "m" -> "M" [] k = "l" -> "L" [] k = "h" -> "H" [] k = "v" -> "V"
      [] k = "q" -> "Q" [] k = "t" -> "T" [] k = "c" -> "C" [] k = "s" -> "S"
      [] k = "a" -> "A" [] k = "z" -> "Z" [] OTHER -> k

\* parameters per set that the case of addSeg for letter k asks of
\* hasSetsOrMore (0 for z/Z, which wants no parameter at all)
SetSize(k) ==
    CASE Upper(k) \in {"M", "L", "T"} -> 2
      [] Upper(k) \in {"H", "V"} -> 1
      [] Upper(k) \in {"Q", "S"} -> 4
      [] Upper(k) = "C" -> 6
      [] Upper(k) = "A" -> 7
      [] OTHER -> 0

(***************************************************************************)
(* Fixed point and emitted commands.                                       *)
(***************************************************************************)
\* n whole pixels as a coordinate of the model
Px(n) == n * 128

\* fixed.Int26_6(v * 64): times 64, truncated toward zero
Fix(v) == IF v >= 0 THEN (v * 64) \div 128 ELSE -(((-v) * 64) \div 128)

\* fixed.Point26_6{Int26_6(x*64), Int26_6(y*64)}
FixPt(x, y) == <<Fix(x), Fix(y)>>

\* the commands rasterx.Path records
CmdStart(p) == [op |-> "Start", pts |-> <<p>>, closed |-> FALSE]
CmdLine(p) == [op |-> "Line", pts |-> <<p>>, closed |-> FALSE]
CmdQuad(b, e) == [op |-> "QuadBezier", pts |-> <<b, e>>, closed |-> FALSE]
CmdCube(b, c2, e) == [op |-> "CubeBezier", pts |-> <<b, c2, e>>, closed |-> FALSE]
CmdStop(cl) == [op |-> "Stop", pts |-> <<>>, closed |-> cl]

\* AddCmd with the command put in front of the path
AddCmdFront(path, cmd) == <<cmd>> \o path

\* Path.Start / Line / QuadBezier / CubeBezier / Stop: the command goes to
\* the end of the path
AddCmd(path, cmd) == Append(path, cmd)

\* c.points[i] with Go's index from 0
At(pts, i) == pts[i + 1]

\* px*2 - rx, py*2 - ry
reflect(px, py, rx, ry) == <<px * 2 - rx, py * 2 - ry>>


(***************************************************************************)
(* The PathCursor as a value: the fields of the struct, the error of the   *)
(* call in progress, and the cursor's ErrorMode.                           *)
(***************************************************************************)
NewCursor(mode) ==
    [Path |-> <<>>, placeX |-> 0, placeY |-> 0, cntlPtX |-> 0, cntlPtY |-> 0,
     pathStartX |-> 0, pathStartY |-> 0, points |-> <<>>, lastKey |-> " ",
     inPath |-> FALSE, ErrorMode |-> mode, err |-> NoErr]

\* init without the reset of lastKey
initKeepsLastKey(c) ==
    [c EXCEPT !.placeX = 0, !.placeY = 0, !.points = <<>>,
              !.Path = <<>>, !.inPath = FALSE, !.err = NoErr]

\* PathCursor.init: cntlPt and pathStart are not reset
init(c) ==
    [c EXCEPT !.placeX = 0, !.placeY = 0, !.points = <<>>, !.lastKey = " ",
              !.Path = <<>>, !.inPath = FALSE, !.err = NoErr]

RECURSIVE valsToAbsFrom(_, _, _)
valsToAbsFrom(pts, i, last) ==
    IF i >= Len(pts) THEN pts
    ELSE LET v == last + At(pts, i)
         IN valsToAbsFrom([pts EXCEPT ![i + 1] = v], i + 1, v)

\* valsToAbs: every value becomes the running sum started at last
valsToAbs(c, last) == [c EXCEPT !.points = valsToAbsFrom(c.points, 0, last)]

RECURSIVE pointsToAbsFrom(_, _, _, _, _)
pointsToAbsFrom(pts, sz, j, lastX, lastY) ==
    IF j >= Len(pts) THEN pts
    ELSE LET upd == [n \in 1..Len(pts) |->
                       IF n - 1 >= j /\ n - 1 < j + sz
                       THEN IF (n - 1 - j) % 2 = 0 THEN pts[n] + lastX
                                                    ELSE pts[n] + lastY
                       ELSE pts[n]]
         IN pointsToAbsFrom(upd, sz, j + sz, At(upd, (j + sz) - 2), At(upd, (j + sz) - 1))

\* pointsToAbs with every set offset by the pen the command started at
pointsToAbsPenOnly(c, sz) ==
    IF Len(c.points) % sz # 0 THEN [c EXCEPT !.err = PanicErr]
    ELSE [c EXCEPT !.points = [n \in 1..Len(c.points) |->
                                 IF (n - 1) % 2 = 0 THEN c.points[n] + c.placeX
                                                    ELSE c.points[n] + c.placeY]]

\* pointsToAbs: every set of sz values is offset by the pen, then by the
\* last pair of the set before it; a last set shorter than sz indexes past
\* the slice
pointsToAbs(c, sz) ==
    IF Len(c.points) % sz # 0 THEN [c EXCEPT !.err = PanicErr]
    ELSE [c EXCEPT !.points = pointsToAbsFrom(c.points, sz, 0, c.placeX, c.placeY)]

\* hasSetsOrMore without the test that the count is a whole number of sets
hasSetsOrMoreNoMod(c, sz, rel) ==
    IF ~(Len(c.points) >= sz)
    THEN [ok |-> FALSE, c |-> c]
    ELSE [ok |-> TRUE, c |-> IF rel THEN pointsToAbs(c, sz) ELSE c]

\* hasSetsOrMore: the count test, and the conversion to absolute when rel
hasSetsOrMore(c, sz, rel) ==
    IF ~(Len(c.points) >= sz /\ Len(c.points) % sz = 0)
    THEN [ok |-> FALSE, c |-> c]
    ELSE [ok |-> TRUE, c |-> IF rel THEN pointsToAbs(c, sz) ELSE c]

\* GetPoints on the number text txt: the buffer is emptied, the tokens are
\* parsed in order, and a token ParseFloat rejects ends the call
GetPoints(c, txt) ==
    [c EXCEPT !.points = txt.pts,
              !.err = IF txt.bad THEN ParseFloatError ELSE NoErr]

\* what follows a hasSetsOrMore call in every case of addSeg: the mismatch
\* return, or the body; an index past the slice panics
Checked(h, need, body) ==
    IF h.c.err # NoErr THEN h.c
    ELSE IF ~h.ok THEN [h.c EXCEPT !.err = paramMismatchError]
    ELSE IF Len(h.c.points) < need THEN [h.c EXCEPT !.err = PanicErr]
    ELSE body

\* case 'z', 'Z' with Stop emitted before the parameter count is tested
segZEmitFirst(c) ==
    LET c1 == IF c.inPath
              THEN [c EXCEPT !.Path = AddCmd(@, CmdStop(TRUE)), !.inPath = FALSE]
              ELSE c
    IN IF Len(c.points) # 0 THEN [c1 EXCEPT !.err = paramMismatchError] ELSE c1

\* case 'z', 'Z' with Stop emitted whether or not a subpath is open
segZAlwaysStop(c) ==
    IF Len(c.points) # 0 THEN [c EXCEPT !.err = paramMismatchError]
    ELSE [c EXCEPT !.Path = AddCmd(@, CmdStop(TRUE)), !.inPath = FALSE]

\* case 'z', 'Z'
segZ(c) ==
    IF Len(c.points) # 0 THEN [c EXCEPT !.err = paramMismatchError]
    ELSE IF c.inPath
         THEN [c EXCEPT !.Path = AddCmd(@, CmdStop(TRUE)), !.inPath = FALSE]
         ELSE c

\* lineLoop that leaves out the last pair
RECURSIVE lineLoopShort(_, _, _)
lineLoopShort(c, i, l) ==
    IF i < l - 3
    THEN lineLoopShort([c EXCEPT !.Path = AddCmd(@, CmdLine(FixPt(At(c.points, i), At(c.points, i + 1))))],
                       i + 2, l)
    ELSE c

RECURSIVE lineLoop(_, _, _)
lineLoop(c, i, l) ==
    IF i < l - 1
    THEN lineLoop([c EXCEPT !.Path = AddCmd(@, CmdLine(FixPt(At(c.points, i), At(c.points, i + 1))))],
                  i + 2, l)
    ELSE c

\* case 'm', 'M'
segM(c0, k) ==
    LET l == Len(c0.points)
        c1 == IF k = "m" THEN [c0 EXCEPT !.placeX = 0, !.placeY = 0] ELSE c0
        h == hasSetsOrMore(c1, 2, k = "m")
        c == h.c
        sx == Fix(At(c.points, 0))
        sy == Fix(At(c.points, 1))
        c2 == [c EXCEPT !.pathStartX = sx, !.pathStartY = sy, !.inPath = TRUE,
                        !.Path = AddCmd(@, CmdStart(<<sx, sy>>))]
        c3 == lineLoop(c2, 2, l)
    IN Checked(h, 2, [c3 EXCEPT !.placeX = At(c.points, l - 2),
                                !.placeY = At(c.points, l - 1)])

\* case 'l', 'L'
segL(c0, k) ==
    LET l == Len(c0.points)
        h == hasSetsOrMore(c0, 2, k = "l")
        c == h.c
        c3 == lineLoop(c, 0, l)
    IN Checked(h, 2, [c3 EXCEPT !.placeX = At(c.points, l - 2),
                                !.placeY = At(c.points, l - 1)])

RECURSIVE vLoop(_, _)
vLoop(c, i) ==
    IF i < Len(c.points)
    THEN vLoop([c EXCEPT !.Path = AddCmd(@, CmdLine(FixPt(c.placeX, At(c.points, i))))], i + 1)
    ELSE c

\* case 'v', 'V'
segV(c0, k) ==
    LET l == Len(c0.points)
        c1 == IF k = "v" THEN valsToAbs(c0, c0.placeY) ELSE c0
        h == hasSetsOrMore(c1, 1, FALSE)
        c == h.c
    IN Checked(h, 1, [vLoop(c, 0) EXCEPT !.placeY = At(c.points, l - 1)])

RECURSIVE hLoop(_, _)
hLoop(c, i) ==
    IF i < Len(c.points)
    THEN hLoop([c EXCEPT !.Path = AddCmd(@, CmdLine(FixPt(At(c.points, i), c.placeY)))], i + 1)
    ELSE c

\* case 'h', 'H'
segH(c0, k) ==
    LET l == Len(c0.points)
        c1 == IF k = "h" THEN valsToAbs(c0, c0.placeX) ELSE c0
        h == hasSetsOrMore(c1, 1, FALSE)
        c == h.c
    IN Checked(h, 1, [hLoop(c, 0) EXCEPT !.placeX = At(c.points, l - 1)])

RECURSIVE quadLoop(_, _, _)
quadLoop(c, i, l) ==
    IF i < l - 3
    THEN quadLoop([c EXCEPT !.Path = AddCmd(@,
                      CmdQuad(FixPt(At(c.points, i), At(c.points, i + 1)),
                              FixPt(At(c.points, i + 2), At(c.points, i + 3))))],
                  i + 4, l)
    ELSE c

\* case 'q', 'Q'
segQ(c0, k) ==
    LET l == Len(c0.points)
        h == hasSetsOrMore(c0, 4, k = "q")
        c == h.c
        c3 == quadLoop(c, 0, l)
    IN Checked(h, 4, [c3 EXCEPT !.cntlPtX = At(c.points, l - 4),
                                !.cntlPtY = At(c.points, l - 3),
                                !.placeX = At(c.points, l - 2),
                                !.placeY = At(c.points, l - 1)])

\* smoothQuadCtl reflecting after a curve of either family
smoothQuadCtlAnyCurve(c) ==
    IF c.lastKey \in {"q", "Q", "T", "t", "c", "C", "s", "S"}
    THEN reflect(c.placeX, c.placeY, c.cntlPtX, c.cntlPtY)
    ELSE <<c.placeX, c.placeY>>

\* the first control point a T set uses: switch c.lastKey
smoothQuadCtl(c) ==
    IF c.lastKey \in {"q", "Q", "T", "t"}
    THEN reflect(c.placeX, c.placeY, c.cntlPtX, c.cntlPtY)
    ELSE <<c.placeX, c.placeY>>

RECURSIVE tLoop(_, _, _, _)
tLoop(c, k, i, l) ==
    IF i < l - 1
    THEN LET ctl == smoothQuadCtl(c)
         IN tLoop([c EXCEPT !.cntlPtX = ctl[1], !.cntlPtY = ctl[2],
                            !.Path = AddCmd(@, CmdQuad(FixPt(ctl[1], ctl[2]),
                                        FixPt(At(c.points, i), At(c.points, i + 1)))),
                            !.lastKey = k,
                            !.placeX = At(c.points, i),
                            !.placeY = At(c.points, i + 1)],
                  k, i + 2, l)
    ELSE c

\* case 't', 'T'
segT(c0, k) ==
    LET l == Len(c0.points)
        h == hasSetsOrMore(c0, 2, k = "t")
    IN Checked(h, 2, tLoop(h.c, k, 0, l))

RECURSIVE cubeLoop(_, _, _)
cubeLoop(c, i, l) ==
    IF i < l - 5
    THEN cubeLoop([c EXCEPT !.Path = AddCmd(@,
                      CmdCube(FixPt(At(c.points, i), At(c.points, i + 1)),
                              FixPt(At(c.points, i + 2), At(c.points, i + 3)),
                              FixPt(At(c.points, i + 4), At(c.points, i + 5))))],
                  i + 6, l)
    ELSE c

\* case 'c', 'C'
segC(c0, k) ==
    LET l == Len(c0.points)
        h == hasSetsOrMore(c0, 6, k = "c")
        c == h.c
        c3 == cubeLoop(c, 0, l)
    IN Checked(h, 6, [c3 EXCEPT !.cntlPtX = At(c.points, l - 4),
                                !.cntlPtY = At(c.points, l - 3),
                                !.placeX = At(c.points, l - 2),
                                !.placeY = At(c.points, l - 1)])

\* the first control point an S set uses: switch c.lastKey
smoothCubeCtl(c) ==
    IF c.lastKey \in {"c", "C", "s", "S"}
    THEN reflect(c.placeX, c.placeY, c.cntlPtX, c.cntlPtY)
    ELSE <<c.placeX, c.placeY>>

RECURSIVE sLoop(_, _, _, _)
sLoop(c, k, i, l) ==
    IF i < l - 3
    THEN LET ctl == smoothCubeCtl(c)
         IN sLoop([c EXCEPT !.Path = AddCmd(@, CmdCube(FixPt(ctl[1], ctl[2]),
                                        FixPt(At(c.points, i), At(c.points, i + 1)),
                                        FixPt(At(c.points, i + 2), At(c.points, i + 3)))),
                            !.lastKey = k,
                            !.cntlPtX = At(c.points, i),
                            !.cntlPtY = At(c.points, i + 1),
                            !.placeX = At(c.points, i + 2),
                            !.placeY = At(c.points, i + 3)],
                  k, i + 4, l)
    ELSE c

\* case 's', 'S'
segS(c0, k) ==
    LET l == Len(c0.points)
        h == hasSetsOrMore(c0, 4, k = "s")
    IN Checked(h, 4, sLoop(h.c, k, 0, l))

(***************************************************************************)
(* Arcs.  FindEllipseCenter and AddArcFromAC compute with sines, tangents  *)
(* and square roots, which the integer model does not hold.  What the      *)
(* model keeps of them is what the code fixes whatever the float values    *)
(* are: how many CubeBezier are emitted (segs), that the last one ends at  *)
(* exactly points[5], points[6], and that the pen is moved to the end of   *)
(* the last spline.  A float outcome fl gives the count: fl.segs (one, or  *)
(* MaxArcSegs) when the geometry is regular, where                         *)
(* segs = int(|deltaEta|/MaxDx) + 1 >= 1, and fl.nanSegs                   *)
(* when it is degenerate.  A radius of 0 or an end point equal to the pen  *)
(* makes the centre NaN, deltaEta NaN, and int(NaN) + 1 depends on the     *)
(* platform: the most negative integer plus one (no iteration) or 1.       *)
(* Control points and the end points of inner splines are floats outside   *)
(* the model and are all written ArcOpaquePt.                              *)
(***************************************************************************)
ArcOpaquePt == <<0, 0>>

FloatOutcomes == [segs : {1, MaxArcSegs}, nanSegs : {0, 1}]

\* the regular outcome used where no arc can occur
NoFloat == [segs |-> 1, nanSegs |-> 1]

\* the arc of points[i..i+6] drawn from the pen has no finite centre
arcDegenerate(c, i) ==
    \/ At(c.points, i) = 0
    \/ At(c.points, i + 1) = 0
    \/ (At(c.points, i + 5) = c.placeX /\ At(c.points, i + 6) = c.placeY)

RECURSIVE arcSplines(_, _, _, _)
arcSplines(path, n, segs, endPt) ==
    IF n > segs THEN path
    ELSE arcSplines(AddCmd(path, CmdCube(ArcOpaquePt, ArcOpaquePt,
                                         IF n = segs THEN endPt ELSE ArcOpaquePt)),
                    n + 1, segs, endPt)

\* AddArcFromA(c.points[i:]) with the spline loop of AddArcFromAC
AddArcFromA(c, i, fl) ==
    LET segs == IF arcDegenerate(c, i) THEN fl.nanSegs ELSE fl.segs
        px == At(c.points, i + 5)
        py == At(c.points, i + 6)
    IN IF segs = 0 THEN c
       ELSE [c EXCEPT !.Path = arcSplines(@, 1, segs, FixPt(px, py)),
                      !.placeX = px, !.placeY = py]

RECURSIVE arcLoop(_, _, _, _, _)
arcLoop(c, k, i, l, fl) ==
    IF i < l - 6
    THEN LET c1 == IF k = "a"
                   THEN [c EXCEPT !.points[i + 6] = @ + c.placeX,
                                  !.points[i + 7] = @ + c.placeY]
                   ELSE c
         IN arcLoop(AddArcFromA(c1, i, fl), k, i + 7, l, fl)
    ELSE c

\* case 'a', 'A'
segA(c0, k, fl) ==
    LET l == Len(c0.points)
        h == hasSetsOrMore(c0, 7, FALSE)
    IN Checked(h, 7, arcLoop(h.c, k, 0, l, fl))

\* default case returning the error in Warn mode too
segUnknownWarnFails(c) ==
    IF c.ErrorMode >= WarnErrorMode THEN [c EXCEPT !.err = commandUnknownError]
    ELSE c

\* default case: a letter that is no command
segUnknown(c) ==
    IF c.ErrorMode = StrictErrorMode THEN [c EXCEPT !.err = commandUnknownError]
    ELSE c

\* addSeg on the segment (k, txt): GetPoints, the switch on k, and the
\* closing c.lastKey = k, which an error return skips
addSeg(c0, k, txt, fl) ==
    LET c == GetPoints(c0, txt)
        r == CASE k \in {"z", "Z"} -> segZ(c)
               [] k \in {"m", "M"} -> segM(c, k)
               [] k \in {"l", "L"} -> segL(c, k)
               [] k \in {"v", "V"} -> segV(c, k)
               [] k \in {"h", "H"} -> segH(c, k)
               [] k \in {"q", "Q"} -> segQ(c, k)
               [] k \in {"t", "T"} -> segT(c, k)
               [] k \in {"c", "C"} -> segC(c, k)
               [] k \in {"s", "S"} -> segS(c, k)
               [] k \in {"a", "A"} -> segA(c, k, fl)
               [] OTHER -> segUnknown(c)
    IN IF c.err # NoErr THEN c
       ELSE IF r.err # NoErr THEN r
       ELSE [r EXCEPT !.lastKey = k]

\* a segment as the path text gives it
Seg(k, pts) == [k |-> k, txt |-> [pts |-> pts, bad |-> FALSE]]

RECURSIVE walk(_, _, _)
walk(c, segs, i) ==
    IF i > Len(segs) \/ c.err # NoErr THEN c
    ELSE walk(addSeg(c, segs[i].k, segs[i].txt, NoFloat), segs, i + 1)

\* CompilePath on a fresh cursor, for a path given as its segments
CompilePath(segs, mode) == walk(init(NewCursor(mode)), segs, 1)

(***************************************************************************)
(* Inputs: the path texts the model compiles.                              *)
(***************************************************************************)
\* the command letters one path text is written with
Alphabets ==
    { {"M", "m", "L", "l", "z"},
      {"M", "H", "h", "V", "v"},
      {"M", "Q", "q", "T", "t"},
      {"M", "C", "c", "S", "s"},
      {"M", "A", "a"},
      {"M", "l", "T", "Z", "x"},
      {"L", "Q", "S", "C", "T"} }

\* the n parameter values written in segment number i (from 0) of a path
\* text: values in -2..4 that differ from one segment to the next
Gen(n, i) == [j \in 1..n |-> ((5 * j + 3 * i) % 7) - 2]

\* parameter counts tried after letter k: none, one set, MaxSets sets, and
\* one value more than a set
Counts(k) ==
    IF SetSize(k) = 0 THEN {0, 1}
    ELSE {n * SetSize(k) : n \in {0, 1, MaxSets}} \cup {SetSize(k) + 1}

\* number texts tried after letter k in segment i: the counts above with
\* every token a float, and one whole set followed by a token ParseFloat
\* rejects
Texts(k, i) ==
    {[pts |-> Gen(n, i), bad |-> FALSE] : n \in Counts(k)}
        \cup {[pts |-> Gen(SetSize(k), i), bad |-> TRUE]}

(***************************************************************************)
(* The path written with absolute letters only (the cursor absRun compiles *)
(* it): every relative coordinate is replaced by its sum with the current  *)
(* point, which after a parameter set is the end point of that set.        *)
(***************************************************************************)
\* the relative coordinates of a set that are x (c = 0) or y (c = 1)
\* offsets, as positions 0..sz-1 in the set
IsXAt(k, o) ==
    CASE k = "h" -> TRUE
      [] k = "v" -> FALSE
      [] k = "a" -> o = 5
      [] OTHER -> o % 2 = 0

IsYAt(k, o) ==
    CASE k = "h" -> FALSE
      [] k = "v" -> TRUE
      [] k = "a" -> o = 6
      [] OTHER -> o % 2 = 1

\* the offset of the end point of set t (from 0): its last x or y value
EndOffX(k, pts, t) ==
    LET sz == SetSize(k)
    IN IF k = "v" THEN 0
       ELSE IF k = "h" THEN At(pts, t)
       ELSE At(pts, t * sz + sz - 2)

EndOffY(k, pts, t) ==
    LET sz == SetSize(k)
    IN IF k = "h" THEN 0
       ELSE IF k = "v" THEN At(pts, t)
       ELSE At(pts, t * sz + sz - 1)

RECURSIVE SumEndX(_, _, _)
SumEndX(k, pts, t) == IF t = 0 THEN 0 ELSE EndOffX(k, pts, t - 1) + SumEndX(k, pts, t - 1)

RECURSIVE SumEndY(_, _, _)
SumEndY(k, pts, t) == IF t = 0 THEN 0 ELSE EndOffY(k, pts, t - 1) + SumEndY(k, pts, t - 1)

\* the parameters of the absolute command that stands for (k, pts) with the
\* current point at (px, py)
AbsParams(k, pts, px, py) ==
    IF k \notin RelKeys \/ Len(pts) % SetSize(k) # 0 THEN pts
    ELSE [n \in 1..Len(pts) |->
            LET t == (n - 1) \div SetSize(k)
                o == (n - 1) % SetSize(k)
            IN IF IsXAt(k, o) THEN pts[n] + px + SumEndX(k, pts, t)
               ELSE IF IsYAt(k, o) THEN pts[n] + py + SumEndY(k, pts, t)
               ELSE pts[n]]

(***************************************************************************)
(* The path written with one letter per parameter set (the cursor repRun   *)
(* compiles it): a relative l, q, t, c or s with several sets becomes the  *)
(* letter repeated before each set.                                        *)
(***************************************************************************)
RepeatKeys == {"l", "q", "t", "c", "s"}

RECURSIVE addSegPerSet(_, _, _, _)
addSegPerSet(c, k, pts, t) ==
    IF t * SetSize(k) >= Len(pts) \/ c.err # NoErr THEN c
    ELSE addSegPerSet(addSeg(c, k, [pts |-> SubSeq(pts, t * SetSize(k) + 1, (t + 1) * SetSize(k)),
                                    bad |-> FALSE], NoFloat),
                      k, pts, t + 1)

addSegRepeated(c, k, txt, fl) ==
    IF k \in RepeatKeys /\ ~txt.bad /\ Len(txt.pts) > 0 /\ Len(txt.pts) % SetSize(k) = 0
    THEN addSegPerSet(c, k, txt.pts, 0)
    ELSE addSeg(c, k, txt, fl)

(***************************************************************************)
(* State.                                                                  *)
(***************************************************************************)
VARIABLES
    Path,           \* PathCursor.Path: the commands emitted
    placeX, placeY, \* the pen
    cntlPtX, cntlPtY,       \* the remembered control point
    pathStartX, pathStartY, \* start of the subpath, 26.6
    points,         \* the parameter buffer
    lastKey,        \* the last command letter
    ErrorMode,
    inPath,
    err,            \* the error CompilePath returns, NoErr while none
    pc,             \* where the caller is: idle, compiling, done, failed, stored, returned
    SVGPaths,       \* icon.SVGPaths of ReadIcon
    letters,        \* the alphabet of the path text
    d,              \* the segments of the path text walked so far
    absRun,         \* a second cursor, compiling the absolute form of d
    repRun,         \* a third cursor, compiling d with one letter per set
    prevCur,        \* the cursor as the CompilePath call before this one left it
    dataPoints,     \* the number text handed to GetPoints, a sequence of characters
    matA, matB,     \* two Matrix2D values
    pt,             \* a point (x1, y1)
    op,             \* the Matrix2D method called last, with its arguments
    matR,           \* the matrix it returned
    ptR,            \* the point Transform returned
    mAdder,         \* SvgPath.mAdder: the matrix M and the wrapped Adder
    fed,            \* how many commands of Path AddTo has handed to mAdder
    g,              \* a Gradient
    opacity,        \* the opacity handed to tColor and GetColorFunction
    tArg,           \* the t of the last call of tColor, none before it
    tcol,           \* the color it returned
    arch,           \* what the build makes of a float64 outside 0..255 turned into uint8
    fns,            \* the values GetColorFunction returned, in the order of the calls
    shot            \* the last call of a returned color function, and its result

matrixVars == <<matA, matB, pt, op, matR, ptR>>

adderVars == <<mAdder, fed>>

gradVars == <<g, opacity, tArg, tcol, arch, fns, shot>>

\* the state outside the cursor and its caller
calcVars == <<prevCur, dataPoints, matrixVars, adderVars, gradVars>>

vars == <<Path, placeX, placeY, cntlPtX, cntlPtY, pathStartX, pathStartY, points,
          lastKey, ErrorMode, inPath, err, pc, SVGPaths, letters, d, absRun, repRun,
          calcVars>>

\* the cursor of the state, as a value
Cur ==
    [Path |-> Path, placeX |-> placeX, placeY |-> placeY, cntlPtX |-> cntlPtX,
     cntlPtY |-> cntlPtY, pathStartX |-> pathStartX, pathStartY |-> pathStartY,
     points |-> points, lastKey |-> lastKey, inPath |-> inPath,
     ErrorMode |-> ErrorMode, err |-> err]

SetCur(r) ==
    /\ Path' = r.Path
    /\ placeX' = r.placeX
    /\ placeY' = r.placeY
    /\ cntlPtX' = r.cntlPtX
    /\ cntlPtY' = r.cntlPtY
    /\ pathStartX' = r.pathStartX
    /\ pathStartY' = r.pathStartY
    /\ points' = r.points
    /\ lastKey' = r.lastKey
    /\ inPath' = r.inPath
    /\ ErrorMode' = r.ErrorMode
    /\ err' = r.err

\* a float64 that is a fraction is held exactly: the six entries of a
\* matrix are whole numbers over the common denominator den
Mat(a, b, c, dd, e, f, den) ==
    [A |-> a, B |-> b, C |-> c, D |-> dd, E |-> e, F |-> f, den |-> den]

\* var Identity = Matrix2D{1, 0, 0, 1, 0, 0}
Identity == Mat(1, 0, 0, 1, 0, 0, 1)

\* a point (x, y) of float64 coordinates, over the denominator den
Pt(x, y, den) == [x |-> x, y |-> y, den |-> den]

\* no Matrix2D method has been called
MatrixIdle ==
    /\ matA = Identity /\ matB = Identity
    /\ pt = Pt(0, 0, 1)
    /\ op = <<"none">>
    /\ matR = Identity
    /\ ptR = <<>>

\* no path has been handed to a MatrixAdder
AdderIdle ==
    /\ mAdder = [M |-> Identity, Adder |-> <<>>]
    /\ fed = 0

\* the spread methods, by their numbers
PadSpread == 0
ReflectSpread == 1
RepeatSpread == 2

\* the gradient units, by their numbers
ObjectBoundingBox == 0
UserSpaceOnUse == 1

\* a Gradient without stops, as the zero value of the struct
NoGradient ==
    [points |-> [i \in 1..5 |-> [n |-> 0, d |-> 1]], stops |-> <<>>,
     bounds |-> [X |-> 0, Y |-> 0, W |-> 0, H |-> 0],
     matrix2D |-> Identity, spread |-> PadSpread, units |-> ObjectBoundingBox,
     isRadial |-> FALSE]

\* no gradient has been sampled
GradIdle ==
    /\ g = NoGradient
    /\ opacity = [n |-> 1, d |-> 1]
    /\ tArg = <<>>
    /\ tcol = <<>>
    /\ arch = "wrap"
    /\ fns = {}
    /\ shot = <<>>

\* nothing outside the cursor has run
CalcIdle ==
    /\ prevCur = NewCursor(IgnoreErrorMode)
    /\ dataPoints = <<>>
    /\ MatrixIdle
    /\ AdderIdle
    /\ GradIdle

\* ErrorMode is read by the default case of addSeg only, so it is varied
\* only for the path texts that hold a letter that is no command
Init ==
    /\ letters \in Alphabets
    /\ ErrorMode \in ErrorModes
    /\ (letters \cap UnknownKeys = {} => ErrorMode = IgnoreErrorMode)
    /\ Path = <<>>
    /\ placeX = 0 /\ placeY = 0
    /\ cntlPtX = 0 /\ cntlPtY = 0
    /\ pathStartX = 0 /\ pathStartY = 0
    /\ points = <<>>
    /\ lastKey = " "
    /\ inPath = FALSE
    /\ err = NoErr
    /\ pc = "idle"
    /\ SVGPaths = <<>>
    /\ d = <<>>
    /\ absRun = NewCursor(ErrorMode)
    /\ repRun = NewCursor(ErrorMode)
    /\ CalcIdle

\* CompilePath, up to its loop: c.init()
CompilePathBegin ==
    /\ pc = "idle"
    /\ SetCur(init(Cur))
    /\ absRun' = init(absRun)
    /\ repRun' = init(repRun)
    /\ pc' = "compiling"
    /\ UNCHANGED <<SVGPaths, letters, d, calcVars>>

\* one turn of the loop of CompilePath: addSeg on the next segment, and
\* the return of its error
AddSegStep(k, txt, fl) ==
    /\ pc = "compiling"
    /\ Len(d) < MaxSegs
    /\ k \in letters
    /\ \E r \in {addSeg(Cur, k, txt, fl)} :
          /\ SetCur(r)
          /\ pc' = IF r.err # NoErr THEN "failed" ELSE "compiling"
    /\ d' = Append(d, [k |-> k, txt |-> txt])
    /\ absRun' = IF absRun.err # NoErr THEN absRun
                 ELSE addSeg(absRun, Upper(k),
                             [txt EXCEPT !.pts = AbsParams(k, txt.pts, absRun.placeX, absRun.placeY)],
                             fl)
    /\ repRun' = IF repRun.err # NoErr THEN repRun
                 ELSE addSegRepeated(repRun, k, txt, fl)
    /\ UNCHANGED <<SVGPaths, letters, calcVars>>

AddSegZ == \E k \in {"z", "Z"} : \E txt \in Texts(k, Len(d)) : AddSegStep(k, txt, NoFloat)

AddSegM == \E k \in {"m", "M"} : \E txt \in Texts(k, Len(d)) : AddSegStep(k, txt, NoFloat)

AddSegL == \E k \in {"l", "L"} : \E txt \in Texts(k, Len(d)) : AddSegStep(k, txt, NoFloat)

AddSegV == \E k \in {"v", "V"} : \E txt \in Texts(k, Len(d)) : AddSegStep(k, txt, NoFloat)

AddSegH == \E k \in {"h", "H"} : \E txt \in Texts(k, Len(d)) : AddSegStep(k, txt, NoFloat)

AddSegQ == \E k \in {"q", "Q"} : \E txt \in Texts(k, Len(d)) : AddSegStep(k, txt, NoFloat)

AddSegT == \E k \in {"t", "T"} : \E txt \in Texts(k, Len(d)) : AddSegStep(k, txt, NoFloat)

AddSegC == \E k \in {"c", "C"} : \E txt \in Texts(k, Len(d)) : AddSegStep(k, txt, NoFloat)

AddSegS == \E k \in {"s", "S"} : \E txt \in Texts(k, Len(d)) : AddSegStep(k, txt, NoFloat)

AddSegA == \E k \in {"a", "A"} : \E txt \in Texts(k, Len(d)) : \E fl \in FloatOutcomes : AddSegStep(k, txt, fl)

AddSegUnknown == \E k \in UnknownKeys : \E txt \in Texts(k, Len(d)) : AddSegStep(k, txt, NoFloat)

\* the path text is at its end: CompilePath returns nil
CompilePathEnd ==
    /\ pc = "compiling"
    /\ pc' = "done"
    /\ UNCHANGED <<Path, placeX, placeY, cntlPtX, cntlPtY, pathStartX, pathStartY,
                   points, lastKey, ErrorMode, inPath, err, SVGPaths, letters, d,
                   absRun, repRun, calcVars>>

\* ReadIcon after a "path" element compiled: a non-empty cursor path is
\* copied to icon.SVGPaths and the cursor path emptied
ReadIconStorePath ==
    /\ pc = "done"
    /\ SVGPaths' = IF Len(Path) > 0 THEN Append(SVGPaths, Path) ELSE SVGPaths
    /\ Path' = <<>>
    /\ pc' = "stored"
    /\ UNCHANGED <<placeX, placeY, cntlPtX, cntlPtY, pathStartX, pathStartY,
                   points, lastKey, ErrorMode, inPath, err, letters, d,
                   absRun, repRun, calcVars>>

\* ReadIcon when CompilePath returned an error: return icon, err
ReadIconReturnErr ==
    /\ pc = "failed"
    /\ err # PanicErr
    /\ pc' = "returned"
    /\ UNCHANGED <<Path, placeX, placeY, cntlPtX, cntlPtY, pathStartX, pathStartY,
                   points, lastKey, ErrorMode, inPath, err, SVGPaths, letters, d,
                   absRun, repRun, calcVars>>

\* the path texts a cursor compiles after another: a smooth curve first, a
\* relative line and a close first, a move, a failing command, no command
SecondPaths ==
    { <<Seg("T", <<2, 1>>), Seg("t", <<1, 3>>)>>,
      <<Seg("S", <<1, 2, 3, 4>>)>>,
      <<Seg("l", <<1, 1>>), Seg("z", <<>>), Seg("h", <<2>>)>>,
      <<Seg("M", <<3, 1>>), Seg("t", <<1, 1>>), Seg("Z", <<>>)>>,
      <<Seg("m", <<1, 2>>), Seg("L", <<1>>)>>,
      <<>> }

\* CompilePath called again on the same cursor, as ReadIcon does for the
\* next "path" element and as a caller can after an error: c.init(), then
\* the walk over the whole of the new path text
CompilePathAgain ==
    /\ pc \in {"done", "failed", "stored"}
    /\ \E d2 \in SecondPaths :
          /\ SetCur(walk(init(Cur), d2, 1))
          /\ d' = d2
    /\ prevCur' = Cur
    /\ pc' = "recompiled"
    /\ UNCHANGED <<SVGPaths, letters, absRun, repRun, dataPoints,
                   matrixVars, adderVars, gradVars>>

Next ==
    \/ CompilePathBegin
    \/ AddSegZ
    \/ AddSegM
    \/ AddSegL
    \/ AddSegV
    \/ AddSegH
    \/ AddSegQ
    \/ AddSegT
    \/ AddSegC
    \/ AddSegS
    \/ AddSegA
    \/ AddSegUnknown
    \/ CompilePathEnd
    \/ ReadIconStorePath
    \/ ReadIconReturnErr

Spec == Init /\ [][Next]_vars

(***************************************************************************)
(* One cursor compiling a path text after another.                         *)
(***************************************************************************)
\* the letters of the first path text: they leave a pen, a control point,
\* a subpath start and an open subpath behind
ResetAlphabets ==
    { {"M", "Q", "t", "z"},
      {"M", "c", "S", "l"} }

InitReset ==
    /\ letters \in ResetAlphabets
    /\ ErrorMode = IgnoreErrorMode
    /\ Path = <<>>
    /\ placeX = 0 /\ placeY = 0
    /\ cntlPtX = 0 /\ cntlPtY = 0
    /\ pathStartX = 0 /\ pathStartY = 0
    /\ points = <<>>
    /\ lastKey = " "
    /\ inPath = FALSE
    /\ err = NoErr
    /\ pc = "idle"
    /\ SVGPaths = <<>>
    /\ d = <<>>
    /\ absRun = NewCursor(ErrorMode)
    /\ repRun = NewCursor(ErrorMode)
    /\ CalcIdle

NextReset ==
    \/ CompilePathBegin
    \/ AddSegZ
    \/ AddSegM
    \/ AddSegL
    \/ AddSegQ
    \/ AddSegT
    \/ AddSegC
    \/ AddSegS
    \/ CompilePathEnd
    \/ ReadIconStorePath
    \/ CompilePathAgain

SpecReset == InitReset /\ [][NextReset]_vars

(***************************************************************************)
(* Vocabulary of the properties.                                           *)
(***************************************************************************)
\* the segment addSeg was last called on
LastSeg == d[Len(d)]

\* the step is one call of addSeg
IsAddSeg == Len(d') = Len(d) + 1

\* the commands the step appended
Emitted == SubSeq(Path', Len(Path) + 1, Len(Path'))

\* the number text is well formed for the letter: every token a float and
\* the count a positive multiple of the set size (none for z)
CountOK(seg) ==
    IF seg.k \in CloseKeys THEN Len(seg.txt.pts) = 0
    ELSE Len(seg.txt.pts) >= SetSize(seg.k) /\ Len(seg.txt.pts) % SetSize(seg.k) = 0

WellFormed(seg) == seg.k \in KnownKeys /\ ~seg.txt.bad /\ CountOK(seg)

NumSets(seg) == Len(seg.txt.pts) \div SetSize(seg.k)

\* the last point of a command
CmdEnd(cmd) == cmd.pts[Len(cmd.pts)]

\* the end points, in 26.6, of the sets of a command with absolute
\* parameters abs, the pen being at (px, py)
SetEnds(k, abs, px, py) ==
    [t \in 1..(Len(abs) \div SetSize(k)) |->
        CASE Upper(k) = "H" -> FixPt(abs[t], py)
          [] Upper(k) = "V" -> FixPt(px, abs[t])
          [] OTHER -> FixPt(abs[t * SetSize(k) - 1], abs[t * SetSize(k)])]

\* scenarios S1, S2, S3 of the specification
ScenarioS1 ==
    CompilePath(<<Seg("M", <<Px(20), Px(20)>>), Seg("L", <<Px(500), Px(800)>>),
                  Seg("L", <<Px(800), Px(200)>>), Seg("z", <<>>)>>, IgnoreErrorMode).Path
      = <<CmdStart(<<1280, 1280>>), CmdLine(<<32000, 51200>>),
          CmdLine(<<51200, 12800>>), CmdStop(TRUE)>>

ScenarioS2 ==
    CompilePath(<<Seg("m", <<Px(20), Px(20), 0, Px(400), Px(400), 0>>), Seg("z", <<>>)>>,
                IgnoreErrorMode).Path
      = <<CmdStart(<<1280, 1280>>), CmdLine(<<1280, 26880>>),
          CmdLine(<<26880, 26880>>), CmdStop(TRUE)>>

ScenarioS3 ==
    CompilePath(<<Seg("M", <<Px(100), Px(100)>>),
                  Seg("Q", <<Px(400), Px(100), Px(250), Px(250)>>),
                  Seg("T", <<Px(400), Px(400)>>), Seg("z", <<>>)>>, IgnoreErrorMode).Path
      = <<CmdStart(<<6400, 6400>>), CmdQuad(<<25600, 6400>>, <<16000, 16000>>),
          CmdQuad(<<6400, 25600>>, <<25600, 25600>>), CmdStop(TRUE)>>

MovePair(k, pts, i) ==
    IF k = "M" THEN <<pts[2 * i - 1], pts[2 * i]>>
    ELSE <<SumEndX("m", pts, i), SumEndY("m", pts, i)>>

MoveToEmits ==
    [][(IsAddSeg /\ d'[Len(d')].k \in {"m", "M"} /\ WellFormed(d'[Len(d')])) =>
        LET seg == d'[Len(d')]
            n == NumSets(seg)
            pr(i) == MovePair(seg.k, seg.txt.pts, i)
        IN /\ err' = NoErr
           /\ Path' = Path \o [i \in 1..n |->
                                 IF i = 1 THEN CmdStart(FixPt(pr(1)[1], pr(1)[2]))
                                 ELSE CmdLine(FixPt(pr(i)[1], pr(i)[2]))]
           /\ inPath'
           /\ <<placeX', placeY'>> = pr(n)
           /\ ScenarioS2]_vars

\* an m with two pairs was compiled in the middle of a path
MoveToEmitsWitness ==
    /\ pc = "compiling"
    /\ Len(d) >= 2
    /\ LastSeg.k = "m"
    /\ NumSets(LastSeg) = 2
    /\ Len(Path) >= 3
    /\ Path[Len(Path) - 1].op = "Start"
    /\ Path[Len(Path)].op = "Line"
    /\ inPath

\* CompilePath is walking the text or has returned to ReadIcon, which has
\* not yet moved the Path to the icon
InCompile == pc \in {"compiling", "done", "failed"}

(***************************************************************************)
(* C3.  A path and its absolute form (every relative command replaced by   *)
(* the absolute command whose coordinates are the relative ones added to   *)
(* the current point) compile to the same commands and the same error,     *)
(* for every relative letter at every position of the path.                *)
(***************************************************************************)
RelEqualsAbs ==
    InCompile => (absRun.Path = Path /\ absRun.err = err)

(***************************************************************************)
(* C4.  A relative l, q, t, c or s with several parameter sets emits the   *)
(* same commands and leaves the same pen as the letter repeated before     *)
(* every set: each set is anchored at the pen the set before it reached.   *)
(***************************************************************************)
RepeatLetterSame ==
    InCompile => /\ repRun.Path = Path
                 /\ repRun.placeX = placeX
                 /\ repRun.placeY = placeY
                 /\ repRun.err = err

\* a relative curve or line command with two sets was compiled away from
\* the origin; its second set has an offset that is not zero
RepeatLetterSameWitness ==
    /\ pc = "compiling"
    /\ Len(d) >= 2
    /\ LastSeg.k \in RepeatKeys
    /\ WellFormed(LastSeg)
    /\ NumSets(LastSeg) = 2
    /\ \E n \in (SetSize(LastSeg.k) + 1)..Len(LastSeg.txt.pts) : LastSeg.txt.pts[n] # 0
    /\ <<d[Len(d) - 1].k, LastSeg.k>> \in {<<"Q", "t">>, <<"C", "s">>, <<"M", "c">>,
                                           <<"M", "q">>, <<"M", "l">>}

(***************************************************************************)
(* C5.  The first control point of every T (S) set is the reflection       *)
(* 2*pen - ctrl of the control point remembered from the previous Q/T      *)
(* (C/S) when the command or set just before belongs to the same family,   *)
(* and the pen otherwise; the remembered point is the control point of     *)
(* the curve emitted last.  Scenario S3 is the example of the claim.       *)
(***************************************************************************)
SmoothFamily(k) ==
    IF Upper(k) = "T" THEN {"q", "Q", "t", "T"} ELSE {"c", "C", "s", "S"}

\* the pen at set j (from 1) of a T or S command with absolute parameters
\* abs, started with the pen at (px, py)
PenAtSet(k, abs, px, py, j) ==
    IF j = 1 THEN <<px, py>>
    ELSE <<abs[(j - 1) * SetSize(k) - 1], abs[(j - 1) * SetSize(k)]>>

\* the first control point that set j must use: lk is the letter of the
\* command before, (cx, cy) the control point remembered from it
RECURSIVE SmoothCtl(_, _, _, _, _, _, _, _)
SmoothCtl(k, abs, px, py, cx, cy, lk, j) ==
    LET pen == PenAtSet(k, abs, px, py, j)
        prev == IF j = 1 THEN <<cx, cy>>
                ELSE IF Upper(k) = "T" THEN SmoothCtl(k, abs, px, py, cx, cy, lk, j - 1)
                ELSE <<abs[(j - 2) * 4 + 1], abs[(j - 2) * 4 + 2]>>
        same == IF j = 1 THEN lk \in SmoothFamily(k) ELSE TRUE
    IN IF same THEN <<2 * pen[1] - prev[1], 2 * pen[2] - prev[2]>> ELSE pen

\* the control point, in 26.6, that the last command of the path leaves to
\* a smooth curve after it
LastCtl(path) ==
    LET cmd == path[Len(path)]
    IN IF cmd.op = "QuadBezier" THEN cmd.pts[1] ELSE cmd.pts[2]

SmoothControl ==
    [][(IsAddSeg /\ Upper(d'[Len(d')].k) \in {"T", "S"} /\ err' = NoErr) =>
        LET seg == d'[Len(d')]
            k == seg.k
            abs == AbsParams(k, seg.txt.pts, placeX, placeY)
        IN /\ Len(Emitted) = NumSets(seg)
           /\ \A j \in 1..NumSets(seg) :
                 LET ctl == SmoothCtl(k, abs, placeX, placeY, cntlPtX, cntlPtY, lastKey, j)
                 IN Emitted[j].pts[1] = FixPt(ctl[1], ctl[2])
           /\ (lastKey \in SmoothFamily(k)
                  => /\ Len(Path) > 0
                     /\ Path[Len(Path)].op = (IF Upper(k) = "T" THEN "QuadBezier" ELSE "CubeBezier")
                     /\ LastCtl(Path) = FixPt(cntlPtX, cntlPtY))
           /\ ScenarioS3]_vars

\* a T with two sets was compiled right after a Q, and its first control
\* point is not the pen: the reflection took place
SmoothControlWitness ==
    /\ pc = "compiling"
    /\ Len(d) = 3
    /\ d[2].k \in {"q", "Q"}
    /\ LastSeg.k \in {"t", "T"}
    /\ NumSets(LastSeg) = 2
    /\ Path[Len(Path) - 1].op = "QuadBezier"
    /\ Path[Len(Path) - 1].pts[1] # CmdEnd(Path[Len(Path) - 2])

(***************************************************************************)
(* C6.  A command whose number text parses is accepted exactly when the    *)
(* count of its parameters is a positive multiple of its set size (0 for   *)
(* Z); with any other count CompilePath returns the parameter-mismatch     *)
(* error, and no count makes it panic.                                     *)
(***************************************************************************)
ParamCount ==
    (pc # "idle") =>
        /\ err # PanicErr
        /\ \A i \in 1..Len(d) :
              (d[i].k \in KnownKeys /\ ~d[i].txt.bad)
                 => (CountOK(d[i]) <=> ~(i = Len(d) /\ err = paramMismatchError))
        /\ (err = paramMismatchError => pc \in {"failed", "returned"})

\* CompilePath returned the mismatch error for a curve with one value too
\* many, after two commands it accepted
ParamCountWitness ==
    /\ pc = "failed"
    /\ err = paramMismatchError
    /\ Len(d) = 3
    /\ LastSeg.k \in {"C", "c", "Q", "q", "S", "s", "A", "a"}
    /\ Len(LastSeg.txt.pts) = SetSize(LastSeg.k) + 1

(***************************************************************************)
(* C7, as claimed.  When CompilePath returns an error the cursor's Path    *)
(* holds no command of the failed path.                                    *)
(***************************************************************************)
NoPartialPath ==
    (pc \in {"failed", "returned"}) => Path = <<>>

(***************************************************************************)
(* C7, amended.  The command that fails emits nothing: when CompilePath    *)
(* returns an error the cursor's Path holds exactly the commands of the    *)
(* segments before the failing one, ReadIcon returns the error without     *)
(* touching them, and nothing of the path reaches icon.SVGPaths.           *)
(***************************************************************************)
FailKeepsEarlierCommands ==
    [][/\ (IsAddSeg /\ err' # NoErr) => (Path' = Path /\ pc' = "failed")
       /\ (pc' = "returned") => (Path' = Path /\ SVGPaths' = <<>> /\ err' # NoErr)]_vars

\* ReadIcon returned the error of a path whose first two commands had put
\* commands in the cursor's Path
FailKeepsEarlierCommandsWitness ==
    /\ pc = "returned"
    /\ Len(d) = 3
    /\ Len(Path) >= 2
    /\ SVGPaths = <<>>

(***************************************************************************)
(* C8, as claimed.  A letter that is no command makes CompilePath return   *)
(* the unknown-command error in Strict mode only; in Ignore and Warn mode  *)
(* compilation goes on, and the letter emits nothing and leaves the pen,   *)
(* the remembered control point and inPath as they were.                   *)
(***************************************************************************)
UnknownIgnored ==
    [][(IsAddSeg /\ d'[Len(d')].k \notin KnownKeys) =>
        /\ (err' = commandUnknownError => ErrorMode = StrictErrorMode)
        /\ (ErrorMode # StrictErrorMode => (err' = NoErr /\ pc' = "compiling"))
        /\ Path' = Path
        /\ <<placeX', placeY', cntlPtX', cntlPtY', inPath'>>
             = <<placeX, placeY, cntlPtX, cntlPtY, inPath>>]_vars

(***************************************************************************)
(* C8, amended.  As claimed when the number text after the letter parses   *)
(* (then Strict mode does return the unknown-command error); a token that  *)
(* is no float makes CompilePath return the parse error in every mode.     *)
(***************************************************************************)
UnknownIgnoredIfParsed ==
    [][(IsAddSeg /\ d'[Len(d')].k \notin KnownKeys) =>
        /\ (err' = commandUnknownError => ErrorMode = StrictErrorMode)
        /\ (~d'[Len(d')].txt.bad =>
               IF ErrorMode = StrictErrorMode
               THEN err' = commandUnknownError /\ pc' = "failed"
               ELSE err' = NoErr /\ pc' = "compiling")
        /\ (d'[Len(d')].txt.bad => (err' = ParseFloatError /\ pc' = "failed"))
        /\ Path' = Path
        /\ <<placeX', placeY', cntlPtX', cntlPtY', inPath'>>
             = <<placeX, placeY, cntlPtX, cntlPtY, inPath>>]_vars

\* in Warn mode a letter that is no command stood between two commands
\* that were both compiled
UnknownIgnoredIfParsedWitness ==
    /\ pc = "compiling"
    /\ ErrorMode = WarnErrorMode
    /\ Len(d) = 3
    /\ d[1].k = "M"
    /\ d[2].k \in UnknownKeys
    /\ d[3].k = "l"
    /\ Len(Path) >= 2
    /\ err = NoErr

(***************************************************************************)
(* C9, as claimed.  Z or z without parameters emits Stop(closed=true) and  *)
(* leaves inPath false.                                                    *)
(***************************************************************************)
CloseEmitsStop ==
    [][(IsAddSeg /\ d'[Len(d')].k \in CloseKeys /\ WellFormed(d'[Len(d')])) =>
        /\ err' = NoErr
        /\ Path' = Path \o <<CmdStop(TRUE)>>
        /\ ~inPath']_vars

(***************************************************************************)
(* C9, amended.  Z or z without parameters leaves inPath false; it emits   *)
(* Stop(closed=true) when inPath was set, and nothing when it was not.     *)
(***************************************************************************)
CloseEmitsStopIfOpen ==
    [][(IsAddSeg /\ d'[Len(d')].k \in CloseKeys /\ WellFormed(d'[Len(d')])) =>
        /\ err' = NoErr
        /\ Path' = (IF inPath THEN Path \o <<CmdStop(TRUE)>> ELSE Path)
        /\ ~inPath']_vars

\* a z closed a subpath of two commands
CloseEmitsStopIfOpenWitness ==
    /\ pc = "compiling"
    /\ Len(d) >= 2
    /\ LastSeg.k \in CloseKeys
    /\ Len(Path) = 3
    /\ Path[1].op = "Start"
    /\ Path[3] = CmdStop(TRUE)
    /\ ~inPath

(***************************************************************************)
(* C10.  Z or z closing a subpath puts the pen back at the start point of  *)
(* that subpath, the point of the last M.                                  *)
(***************************************************************************)
CloseRestoresPen ==
    [][(IsAddSeg /\ d'[Len(d')].k \in CloseKeys /\ WellFormed(d'[Len(d')]) /\ inPath) =>
        FixPt(placeX', placeY') = <<pathStartX, pathStartY>>]_vars

(***************************************************************************)
(* C11: CompilePath resets the cursor before it walks the path: the        *)
(* commands in Path and the error returned by CompilePath(d) on a cursor   *)
(* that compiled another path text before, to its end or to an error, are  *)
(* those of CompilePath(d) on a new cursor with the same ErrorMode.        *)
(***************************************************************************)
ResetBeforeWalk ==
    pc = "recompiled" =>
        /\ Path = CompilePath(d, ErrorMode).Path
        /\ err = CompilePath(d, ErrorMode).err

\* a first path text failed part-way, leaving commands, a pen and a control
\* point behind, and the second begins with a smooth curve
ResetBeforeWalkWitness ==
    /\ pc = "recompiled"
    /\ prevCur.err # NoErr
    /\ Len(prevCur.Path) >= 2
    /\ prevCur.lastKey \in {"Q", "c"}
    /\ <<prevCur.cntlPtX, prevCur.cntlPtY>> # <<0, 0>>
    /\ <<prevCur.placeX, prevCur.placeY>> # <<0, 0>>
    /\ Len(d) >= 1
    /\ d[1].k \in {"T", "S"}
    /\ Len(Path) >= 1

(***************************************************************************)
(* GetPoints on the characters of the number text.  A value ParseFloat     *)
(* returns is kept exact, as the pair (m, e) that stands for m * 10^e with *)
(* m not a multiple of 10.                                                 *)
(***************************************************************************)
MaxChars == 6

\* the characters of the texts: a digit, the point, the exponent mark, the
\* sign, and a blank for the characters that are none of these
Chars == {"1", ".", "e", "-", " "}

\* unicode.IsNumber, on the characters above
IsNumber(r) == r = "1"

\* the texts of up to n characters
RECURSIVE TextsUpTo(_)
TextsUpTo(n) ==
    IF n = 0 THEN {<<>>}
    ELSE LET shorter == TextsUpTo(n - 1)
         IN shorter \cup {Append(t, ch) : t \in {u \in shorter : Len(u) = n - 1}, ch \in Chars}

\* dataPoints[lo:hi] with Go's indices from 0
Slice(str, lo, hi) == SubSeq(str, lo + 1, hi)

\* the number a run of digits writes
RECURSIVE DigitsVal(_)
DigitsVal(ds) ==
    IF Len(ds) = 0 THEN 0
    ELSE 10 * DigitsVal(SubSeq(ds, 1, Len(ds) - 1)) + (IF ds[Len(ds)] = "1" THEN 1 ELSE 0)

AllDigits(ds) == \A i \in 1..Len(ds) : IsNumber(ds[i])

\* the first place of character ch in str, Len(str) + 1 when there is none
FirstOf(str, ch) ==
    IF \E i \in 1..Len(str) : str[i] = ch
    THEN CHOOSE i \in 1..Len(str) : str[i] = ch /\ \A j \in 1..(i - 1) : str[j] # ch
    ELSE Len(str) + 1

\* strconv.ParseFloat(numStr, 64) on a decimal text: an optional sign, digits
\* with at most one point and at least one digit, and an optional exponent
\* of an optional sign and at least one digit; ok is err == nil
ParseFloat(numStr) ==
    LET neg == Len(numStr) > 0 /\ numStr[1] = "-"
        body == IF neg THEN SubSeq(numStr, 2, Len(numStr)) ELSE numStr
        ePos == FirstOf(body, "e")
        mant == SubSeq(body, 1, ePos - 1)
        hasExp == ePos <= Len(body)
        expo == SubSeq(body, ePos + 1, Len(body))
        expNeg == Len(expo) > 0 /\ expo[1] = "-"
        expDigits == IF expNeg THEN SubSeq(expo, 2, Len(expo)) ELSE expo
        dot == FirstOf(mant, ".")
        intPart == SubSeq(mant, 1, dot - 1)
        fracPart == SubSeq(mant, dot + 1, Len(mant))
        ok == /\ AllDigits(intPart) /\ AllDigits(fracPart)
              /\ Len(intPart) + Len(fracPart) > 0
              /\ (hasExp => AllDigits(expDigits) /\ Len(expDigits) > 0)
        m == DigitsVal(intPart \o fracPart)
        ex == (IF hasExp THEN (IF expNeg THEN 0 - DigitsVal(expDigits) ELSE DigitsVal(expDigits))
               ELSE 0) - Len(fracPart)
    IN [ok |-> ok, f |-> [m |-> IF neg THEN 0 - m ELSE m, e |-> ex]]

\* ReadFloat: the parsed value is appended to c.points, or the error returned
ReadFloat(c, numStr) ==
    LET r == ParseFloat(numStr)
    IN IF ~r.ok THEN [c EXCEPT !.err = ParseFloatError]
       ELSE [c EXCEPT !.points = Append(c.points, r.f)]

\* the test that ends a token, without the exception for a sign after e
IsSeparatorNoExp(r, lr) ==
    ~IsNumber(r) /\ r # "." /\ r # "e"

\* the test of the loop of GetPoints: r ends the token in progress
IsSeparator(r, lr) ==
    ~IsNumber(r) /\ r # "." /\ ~(r = "-" /\ lr = "e") /\ r # "e"

\* the loop of GetPoints from index i (from 0), and the read of the token
\* in progress at the end of the text
RECURSIVE getPointsLoop(_, _, _, _, _)
getPointsLoop(c, str, i, lastIndex, lr) ==
    IF c.err # NoErr THEN c
    ELSE IF i >= Len(str)
    THEN IF lastIndex # -1 /\ lastIndex # Len(str)
         THEN ReadFloat(c, Slice(str, lastIndex, Len(str)))
         ELSE c
    ELSE LET r == str[i + 1]
         IN IF IsSeparator(r, lr)
            THEN getPointsLoop(IF lastIndex # -1 THEN ReadFloat(c, Slice(str, lastIndex, i)) ELSE c,
                               str, i + 1, IF r = "-" THEN i ELSE -1, r)
            ELSE getPointsLoop(c, str, i + 1, IF lastIndex = -1 THEN i ELSE lastIndex, r)

\* GetPoints on a text of characters
GetPointsText(c, str) ==
    getPointsLoop([c EXCEPT !.points = <<>>], str, 0, -1, " ")

\* the cursor holds the points of an earlier command; a number text is
\* at hand
InitGetPoints ==
    /\ dataPoints \in TextsUpTo(MaxChars)
    /\ letters = {}
    /\ ErrorMode = IgnoreErrorMode
    /\ Path = <<>>
    /\ placeX = 0 /\ placeY = 0
    /\ cntlPtX = 0 /\ cntlPtY = 0
    /\ pathStartX = 0 /\ pathStartY = 0
    /\ points = <<[m |-> 11, e |-> 0]>>
    /\ lastKey = " "
    /\ inPath = FALSE
    /\ err = NoErr
    /\ pc = "idle"
    /\ SVGPaths = <<>>
    /\ d = <<>>
    /\ absRun = NewCursor(ErrorMode)
    /\ repRun = NewCursor(ErrorMode)
    /\ prevCur = NewCursor(IgnoreErrorMode)
    /\ MatrixIdle
    /\ AdderIdle
    /\ GradIdle

\* c.GetPoints(dataPoints)
GetPointsCall ==
    /\ pc = "idle"
    /\ SetCur(GetPointsText(Cur, dataPoints))
    /\ pc' = "scanned"
    /\ UNCHANGED <<SVGPaths, letters, d, absRun, repRun, calcVars>>

NextGetPoints == GetPointsCall

SpecGetPoints == InitGetPoints /\ [][NextGetPoints]_vars

\* the characters of a token: a digit, a point, an e, a sign right after e
TokChar(str, i) ==
    \/ str[i] \in {"1", ".", "e"}
    \/ str[i] = "-" /\ i > 1 /\ str[i - 1] = "e"

\* a token starts at i: at a token character with none before it, and at
\* every sign that does not follow e
TokStarts(str, i) ==
    \/ str[i] = "-" /\ ~TokChar(str, i)
    \/ TokChar(str, i) /\ (i = 1 \/ ~(TokChar(str, i - 1) \/ str[i - 1] = "-"))

\* the last place of the token that starts at i
TokEnd(str, i) ==
    CHOOSE j \in i..Len(str) :
        /\ \A n \in (i + 1)..j : TokChar(str, n)
        /\ (j = Len(str) \/ ~TokChar(str, j + 1))

\* the tokens of the text, in the order of the text
RECURSIVE TokensFrom(_, _)
TokensFrom(str, i) ==
    IF i > Len(str) THEN <<>>
    ELSE IF TokStarts(str, i)
    THEN <<SubSeq(str, i, TokEnd(str, i))>> \o TokensFrom(str, i + 1)
    ELSE TokensFrom(str, i + 1)

\* the values of the tokens before the first that is no float
RECURSIVE ValuesOf(_)
ValuesOf(toks) ==
    IF Len(toks) = 0 \/ ~ParseFloat(toks[1]).ok THEN <<>>
    ELSE <<ParseFloat(toks[1]).f>> \o ValuesOf(Tail(toks))

(***************************************************************************)
(* C12: GetPoints empties the points buffer, splits the text into tokens   *)
(* (maximal runs of digits, '.', 'e' and a '-' right after 'e'; a '-' that *)
(* does not follow 'e' ends the token and starts one that holds it; every  *)
(* other character ends the token and is in none), appends the tokens'     *)
(* values in the order of the text, and returns an error at the first      *)
(* token that is no float.                                                 *)
(***************************************************************************)
GetPointsTokens ==
    pc = "scanned" =>
        LET toks == TokensFrom(dataPoints, 1)
        IN /\ points = ValuesOf(toks)
           /\ (err = NoErr) = (\A i \in 1..Len(toks) : ParseFloat(toks[i]).ok)
           /\ err \in {NoErr, ParseFloatError}

\* "1e-1-1": the sign after e stays in the first token, the second sign
\* starts the second token
GetPointsTokensWitness ==
    /\ pc = "scanned"
    /\ dataPoints = <<"1", "e", "-", "1", "-", "1">>
    /\ points = <<[m |-> 1, e |-> -1], [m |-> -1, e |-> 0]>>
    /\ err = NoErr

(***************************************************************************)
(* Matrix2D.  The float64 arithmetic of the methods is exact on the        *)
(* fractions used here; a product of two matrices has the product of the   *)
(* denominators.                                                           *)
(***************************************************************************)
\* a.Mult(b) with the arguments exchanged
MultSwapped(a, b) ==
    Mat(b.A * a.A + b.C * a.B,
        b.B * a.A + b.D * a.B,
        b.A * a.C + b.C * a.D,
        b.B * a.C + b.D * a.D,
        b.A * a.E + b.C * a.F + b.E * a.den,
        b.B * a.E + b.D * a.F + b.F * a.den,
        a.den * b.den)

\* a.Mult(b)
Mult(a, b) ==
    Mat(a.A * b.A + a.C * b.B,
        a.B * b.A + a.D * b.B,
        a.A * b.C + a.C * b.D,
        a.B * b.C + a.D * b.D,
        a.A * b.E + a.C * b.F + a.E * b.den,
        a.B * b.E + a.D * b.F + a.F * b.den,
        a.den * b.den)

\* m.Transform(x1, y1)
Transform(m, p) ==
    Pt(p.x * m.A + p.y * m.C + m.E * p.den,
       p.x * m.B + p.y * m.D + m.F * p.den,
       p.den * m.den)

\* a.Scale(x, y), x and y whole numbers
Scale(a, x, y) == Mult(a, Mat(x, 0, 0, y, 0, 0, 1))

\* an angle theta, by the values math.Cos, math.Sin and math.Tan return for
\* it: cos/den, sin/den and tan/tden
Angle(cos, sin, den, tan, tden) ==
    [cos |-> cos, sin |-> sin, den |-> den, tan |-> tan, tden |-> tden]

\* a.SkewY(theta)
SkewY(a, theta) == Mult(a, Mat(theta.tden, theta.tan, 0, theta.tden, 0, 0, theta.tden))

\* a.SkewX(theta)
SkewX(a, theta) == Mult(a, Mat(theta.tden, 0, theta.tan, theta.tden, 0, 0, theta.tden))

\* a.Translate(x, y), x and y whole numbers
Translate(a, x, y) ==
    Mat(a.A, a.B, a.C, a.D, a.E + x * a.den, a.F + y * a.den, a.den)

\* a.Rotate(theta)
Rotate(a, theta) ==
    Mult(a, Mat(theta.cos, theta.sin, 0 - theta.sin, theta.cos, 0, 0, theta.den))

\* the matrices tried: the identity, a scale with a translation, a quarter
\* turn with a translation, and a shear with entries that are halves
Matrices ==
    { Identity,
      Mat(2, 0, 0, 3, 1, -1, 1),
      Mat(0, 1, -1, 0, 2, 0, 1),
      Mat(1, 1, 0, 2, -1, 3, 2) }

\* the points tried
Points == { Pt(0, 0, 1), Pt(1, 0, 1), Pt(-2, 3, 1), Pt(1, 1, 2) }

\* the whole numbers tried as arguments of Translate and Scale
Offsets == {-1, 2}

\* the angles tried: 0, atan(3/4) and atan(-4/3)
Angles ==
    { Angle(1, 0, 1, 0, 1),
      Angle(4, 3, 5, 3, 4),
      Angle(3, -4, 5, -4, 3) }

InitMatrix ==
    /\ matA \in Matrices
    /\ matB \in Matrices
    /\ pt \in Points
    /\ op = <<"none">>
    /\ matR = Identity
    /\ ptR = <<>>
    /\ letters = {}
    /\ ErrorMode = IgnoreErrorMode
    /\ Path = <<>>
    /\ placeX = 0 /\ placeY = 0
    /\ cntlPtX = 0 /\ cntlPtY = 0
    /\ pathStartX = 0 /\ pathStartY = 0
    /\ points = <<>>
    /\ lastKey = " "
    /\ inPath = FALSE
    /\ err = NoErr
    /\ pc = "idle"
    /\ SVGPaths = <<>>
    /\ d = <<>>
    /\ absRun = NewCursor(ErrorMode)
    /\ repRun = NewCursor(ErrorMode)
    /\ prevCur = NewCursor(IgnoreErrorMode)
    /\ dataPoints = <<>>
    /\ AdderIdle
    /\ GradIdle

\* what a call of a Matrix2D method on matA leaves alone
MatrixCallFrame ==
    /\ op = <<"none">>
    /\ UNCHANGED <<Path, placeX, placeY, cntlPtX, cntlPtY, pathStartX, pathStartY,
                   points, lastKey, ErrorMode, inPath, err, pc, SVGPaths, letters, d,
                   absRun, repRun, prevCur, dataPoints, matA, matB, pt, ptR,
                   adderVars, gradVars>>

MultCall ==
    /\ MatrixCallFrame
    /\ op' = <<"Mult">>
    /\ matR' = Mult(matA, matB)

ScaleCall ==
    /\ MatrixCallFrame
    /\ \E x \in Offsets, y \in Offsets :
          /\ op' = <<"Scale", x, y>>
          /\ matR' = Scale(matA, x, y)

SkewYCall ==
    /\ MatrixCallFrame
    /\ \E theta \in Angles :
          /\ op' = <<"SkewY", theta>>
          /\ matR' = SkewY(matA, theta)

SkewXCall ==
    /\ MatrixCallFrame
    /\ \E theta \in Angles :
          /\ op' = <<"SkewX", theta>>
          /\ matR' = SkewX(matA, theta)

TranslateCall ==
    /\ MatrixCallFrame
    /\ \E x \in Offsets, y \in Offsets :
          /\ op' = <<"Translate", x, y>>
          /\ matR' = Translate(matA, x, y)

RotateCall ==
    /\ MatrixCallFrame
    /\ \E theta \in Angles :
          /\ op' = <<"Rotate", theta>>
          /\ matR' = Rotate(matA, theta)

\* matR.Transform(pt)
TransformCall ==
    /\ op # <<"none">>
    /\ ptR = <<>>
    /\ ptR' = <<Transform(matR, pt)>>
    /\ UNCHANGED <<Path, placeX, placeY, cntlPtX, cntlPtY, pathStartX, pathStartY,
                   points, lastKey, ErrorMode, inPath, err, pc, SVGPaths, letters, d,
                   absRun, repRun, prevCur, dataPoints, matA, matB, pt, op, matR,
                   adderVars, gradVars>>

NextMatrix ==
    \/ MultCall
    \/ ScaleCall
    \/ SkewYCall
    \/ SkewXCall
    \/ TranslateCall
    \/ RotateCall
    \/ TransformCall

SpecMatrix == InitMatrix /\ [][NextMatrix]_vars

\* two matrices hold the same six float64 values
SameMatrix(m, n) ==
    /\ m.A * n.den = n.A * m.den /\ m.B * n.den = n.B * m.den
    /\ m.C * n.den = n.C * m.den /\ m.D * n.den = n.D * m.den
    /\ m.E * n.den = n.E * m.den /\ m.F * n.den = n.F * m.den

\* two points hold the same two float64 values
SamePoint(p, q) == p.x * q.den = q.x * p.den /\ p.y * q.den = q.y * p.den

(***************************************************************************)
(* C13: M1.Mult(M2).Transform(p) is M1.Transform(M2.Transform(p)), M2      *)
(* applied first, and Identity is neutral on both sides of Mult.           *)
(***************************************************************************)
MultComposes ==
    op[1] = "Mult" =>
        /\ ptR # <<>> => SamePoint(ptR[1], Transform(matA, Transform(matB, pt)))
        /\ matA = Identity => SameMatrix(matR, matB)
        /\ matB = Identity => SameMatrix(matR, matA)

\* two matrices that do not commute, and a point they move
MultComposesWitness ==
    /\ op[1] = "Mult"
    /\ ptR # <<>>
    /\ matA # Identity /\ matB # Identity
    /\ ~SameMatrix(Mult(matA, matB), Mult(matB, matA))
    /\ ~SamePoint(ptR[1], Transform(matB, Transform(matA, pt)))
    /\ ~SamePoint(ptR[1], pt)
    /\ matA.den * matB.den > 1

(***************************************************************************)
(* C14: each of Translate, Scale, Rotate, SkewX and SkewY of M returns     *)
(* M.Mult(P), P the primitive matrix of the method; in particular          *)
(* M.Translate(dx, dy).Transform(p) is M.Transform(p + (dx, dy)), for      *)
(* every M.                                                                *)
(***************************************************************************)
PrimitiveIsMult ==
    /\ op[1] = "Translate" =>
          /\ SameMatrix(matR, Mult(matA, Mat(1, 0, 0, 1, op[2], op[3], 1)))
          /\ ptR # <<>> =>
                SamePoint(ptR[1],
                          Transform(matA, Pt(pt.x + op[2] * pt.den, pt.y + op[3] * pt.den, pt.den)))
    /\ op[1] = "Scale" => SameMatrix(matR, Mult(matA, Mat(op[2], 0, 0, op[3], 0, 0, 1)))
    /\ op[1] = "Rotate" =>
          SameMatrix(matR, Mult(matA, Mat(op[2].cos, op[2].sin, 0 - op[2].sin, op[2].cos,
                                          0, 0, op[2].den)))
    /\ op[1] = "SkewX" =>
          SameMatrix(matR, Mult(matA, Mat(op[2].tden, 0, op[2].tan, op[2].tden, 0, 0, op[2].tden)))
    /\ op[1] = "SkewY" =>
          SameMatrix(matR, Mult(matA, Mat(op[2].tden, op[2].tan, 0, op[2].tden, 0, 0, op[2].tden)))

(***************************************************************************)
(* MatrixAdder: Path.AddTo hands the commands of a path, one by one, to    *)
(* the MatrixAdder, which hands them on to the Adder it wraps.             *)
(***************************************************************************)
MaxCmds == 3

\* fixed.Int26_6(v) of the float64 v = num/den: truncation toward zero
Int26_6(num, den) == IF num >= 0 THEN num \div den ELSE 0 - ((0 - num) \div den)

\* TFixed without the translation of the matrix
TFixedNoOffset(m, a) ==
    <<Int26_6(a[1] * m.A + a[2] * m.C, m.den),
      Int26_6(a[1] * m.B + a[2] * m.D, m.den)>>

\* m.TFixed(a), a a fixed.Point26_6
TFixed(m, a) ==
    <<Int26_6((a[1] * m.A + a[2] * m.C) + m.E * 64, m.den),
      Int26_6((a[1] * m.B + a[2] * m.D) + m.F * 64, m.den)>>

\* the commands of the paths handed to the adder
AdderCmds ==
    { CmdStart(<<64, -32>>),
      CmdLine(<<-7, 3>>),
      CmdQuad(<<64, -32>>, <<-7, 3>>),
      CmdCube(<<-7, 3>>, <<64, -32>>, <<5, 5>>),
      CmdStop(TRUE) }

\* the paths of up to n commands
RECURSIVE PathsUpTo(_)
PathsUpTo(n) ==
    IF n = 0 THEN {<<>>}
    ELSE LET shorter == PathsUpTo(n - 1)
         IN shorter \cup {Append(q, c) : q \in {u \in shorter : Len(u) = n - 1}, c \in AdderCmds}

\* SvgPath.Draw before AddTo: a compiled path, and a matrix in mAdder
InitAdder ==
    /\ Path \in PathsUpTo(MaxCmds)
    /\ mAdder \in [M : Matrices, Adder : {<<>>}]
    /\ fed = 0
    /\ letters = {}
    /\ ErrorMode = IgnoreErrorMode
    /\ placeX = 0 /\ placeY = 0
    /\ cntlPtX = 0 /\ cntlPtY = 0
    /\ pathStartX = 0 /\ pathStartY = 0
    /\ points = <<>>
    /\ lastKey = " "
    /\ inPath = FALSE
    /\ err = NoErr
    /\ pc = "idle"
    /\ SVGPaths = <<>>
    /\ d = <<>>
    /\ absRun = NewCursor(ErrorMode)
    /\ repRun = NewCursor(ErrorMode)
    /\ prevCur = NewCursor(IgnoreErrorMode)
    /\ dataPoints = <<>>
    /\ MatrixIdle
    /\ GradIdle

\* what a call on the MatrixAdder leaves alone
AdderFrame ==
    UNCHANGED <<Path, placeX, placeY, cntlPtX, cntlPtY, pathStartX, pathStartY,
                points, lastKey, ErrorMode, inPath, err, pc, SVGPaths, letters, d,
                absRun, repRun, prevCur, dataPoints, matrixVars, gradVars>>

\* AddTo reaches a command of kind kind
NextCmdIs(kind) == fed < Len(Path) /\ Path[fed + 1].op = kind

\* the wrapped Adder receives cmd
Forward(cmd) ==
    /\ mAdder' = [mAdder EXCEPT !.Adder = Append(@, cmd)]
    /\ fed' = fed + 1
    /\ AdderFrame

\* t.Reset(), between paths
MatrixAdderReset ==
    /\ fed = 0
    /\ mAdder.M # Identity
    /\ mAdder' = [mAdder EXCEPT !.M = Identity]
    /\ UNCHANGED fed
    /\ AdderFrame

\* t.Start(a)
MatrixAdderStart ==
    /\ NextCmdIs("Start")
    /\ Forward(CmdStart(TFixed(mAdder.M, Path[fed + 1].pts[1])))

\* t.Line(b)
MatrixAdderLine ==
    /\ NextCmdIs("Line")
    /\ Forward(CmdLine(TFixed(mAdder.M, Path[fed + 1].pts[1])))

\* t.QuadBezier(b, c)
MatrixAdderQuadBezier ==
    /\ NextCmdIs("QuadBezier")
    /\ Forward(CmdQuad(TFixed(mAdder.M, Path[fed + 1].pts[1]),
                       TFixed(mAdder.M, Path[fed + 1].pts[2])))

\* t.CubeBezier(b, c, d)
MatrixAdderCubeBezier ==
    /\ NextCmdIs("CubeBezier")
    /\ Forward(CmdCube(TFixed(mAdder.M, Path[fed + 1].pts[1]),
                       TFixed(mAdder.M, Path[fed + 1].pts[2]),
                       TFixed(mAdder.M, Path[fed + 1].pts[3])))

\* t.Stop(closeLoop): the method of the embedded Adder
MatrixAdderStop ==
    /\ NextCmdIs("Stop")
    /\ Forward(CmdStop(Path[fed + 1].closed))

NextAdder ==
    \/ MatrixAdderReset
    \/ MatrixAdderStart
    \/ MatrixAdderLine
    \/ MatrixAdderQuadBezier
    \/ MatrixAdderCubeBezier
    \/ MatrixAdderStop

SpecAdder == InitAdder /\ [][NextAdder]_vars

\* the 26.6 image of the point m.Transform(x, y), (x, y) the point that the
\* fixed point a stands for
TransformImage(m, a) ==
    LET q == Transform(m, Pt(a[1], a[2], 64))
    IN <<Int26_6(q.x * 64, q.den), Int26_6(q.y * 64, q.den)>>

(***************************************************************************)
(* C15: the wrapped Adder receives the calls made on the MatrixAdder, of   *)
(* the same kind and in the same order, every point replaced by the 26.6   *)
(* image of its transform by M; with M the identity the points are         *)
(* unchanged, and Stop is handed on as it is.                              *)
(***************************************************************************)
AdderForwards ==
    /\ Len(mAdder.Adder) = fed
    /\ \A i \in 1..fed :
          /\ mAdder.Adder[i].op = Path[i].op
          /\ mAdder.Adder[i].closed = Path[i].closed
          /\ Len(mAdder.Adder[i].pts) = Len(Path[i].pts)
          /\ \A j \in 1..Len(Path[i].pts) :
                mAdder.Adder[i].pts[j] = TransformImage(mAdder.M, Path[i].pts[j])
    /\ mAdder.M = Identity => mAdder.Adder = SubSeq(Path, 1, fed)

\* a whole path with a curve and a Stop went through a matrix with entries
\* that are halves, and a coordinate was truncated
AdderForwardsWitness ==
    /\ fed = MaxCmds
    /\ Len(Path) = MaxCmds
    /\ mAdder.M.den = 2
    /\ \E i \in 1..fed : Path[i].op \in {"QuadBezier", "CubeBezier"}
    /\ Path[fed].op = "Stop"
    /\ \E i \in 1..fed : \E j \in 1..Len(Path[i].pts) :
          /\ (Path[i].pts[j][1] * mAdder.M.A + Path[i].pts[j][2] * mAdder.M.C) % 2 = 1
          /\ mAdder.Adder[i].pts[j][1] < 0
          /\ mAdder.Adder[i].pts[j] # Path[i].pts[j]

(***************************************************************************)
(* Gradient stops.  A float64 of the gradient code is held exactly, as the *)
(* fraction n/d in lowest terms with d > 0.                                *)
(***************************************************************************)
MaxStops == 3

\* offsets and values of t are multiples of 1/Grid
Grid == 4

RECURSIVE GCD(_, _)
GCD(x, y) == IF y = 0 THEN x ELSE GCD(y, x % y)

Abs(x) == IF x < 0 THEN 0 - x ELSE x

\* the float64 n/d
Frac(n, dd) ==
    LET sg == IF dd < 0 THEN -1 ELSE 1
        k == GCD(Abs(n), Abs(dd))
    IN [n |-> (sg * n) \div k, d |-> (sg * dd) \div k]

Whole(k) == Frac(k, 1)

FAdd(x, y) == Frac(x.n * y.d + y.n * x.d, x.d * y.d)
FSub(x, y) == Frac(x.n * y.d - y.n * x.d, x.d * y.d)
FMul(x, y) == Frac(x.n * y.n, x.d * y.d)
FDiv(x, y) == Frac(x.n * y.d, x.d * y.n)
FLess(x, y) == x.n * y.d < y.n * x.d
FLeq(x, y) == x.n * y.d <= y.n * x.d

\* the whole number a float64 is truncated to on conversion to an integer
FTrunc(x) == Int26_6(x.n, x.d)

\* math.Mod(x, y), y > 0: the remainder with the sign of x
FMod(x, y) == FSub(x, FMul(y, Whole(FTrunc(FDiv(x, y)))))

\* uint8(v) of an unsigned integer v: the low 8 bits
Uint8(v) == v % 256

\* uint8(x) of a float64 x: the truncation when it is in 0..255; outside,
\* the result depends on the build
FloatToUint8(x) ==
    LET v == FTrunc(x)
    IN IF v >= 0 /\ v <= 255 THEN v
       ELSE IF arch = "wrap" THEN v % 256
       ELSE IF v < 0 THEN 0 ELSE 255

\* c.RGBA() of an opaque color: the 8 bit channels widened to 16 bits
RGBA(c) == [r |-> c.R * 257, g |-> c.G * 257, b |-> c.B * 257, a |-> c.A * 257]

\* ApplyOpacity that keeps the alpha of the color
ApplyOpacityOpaque(c, o) ==
    LET w == RGBA(c)
    IN [R |-> Uint8(w.r), G |-> Uint8(w.g), B |-> Uint8(w.b), A |-> Uint8(w.a)]

\* ApplyOpacity(c, opacity)
ApplyOpacity(c, o) ==
    LET w == RGBA(c)
    IN [R |-> Uint8(w.r), G |-> Uint8(w.g), B |-> Uint8(w.b),
        A |-> FloatToUint8(FMul(o, Whole(255)))]

\* g.stops[i] with Go's index from 0
StopAt(stops, i) == stops[i + 1]

\* g.blendStops(t, opacity, s1, s2, flip)
blendStops(t, o, s1, s2, flip) ==
    LET wrap == FLess(s2.offset, s1.offset) /\ ~flip
        s1off == IF wrap THEN FSub(s1.offset, Whole(1)) ELSE s1.offset
        t1 == IF wrap /\ FLess(Whole(1), t) THEN FSub(t, Whole(1)) ELSE t
    IN IF s2.offset = s1off THEN ApplyOpacity(s2.stopColor, s2.opacity)
       ELSE LET t2 == IF flip THEN FSub(Whole(1), t1) ELSE t1
                tp == FDiv(FSub(t2, s1off), FSub(s2.offset, s1off))
                w1 == RGBA(s1.stopColor)
                w2 == RGBA(s2.stopColor)
                mix(x, y) == FloatToUint8(FDiv(FAdd(FMul(Whole(x), FSub(Whole(1), tp)),
                                                   FMul(Whole(y), tp)),
                                              Whole(256)))
            IN ApplyOpacity([R |-> mix(w1.r, w2.r), G |-> mix(w1.g, w2.g),
                             B |-> mix(w1.b, w2.b), A |-> 255],
                            FMul(FAdd(FMul(s1.opacity, FSub(Whole(1), tp)),
                                      FMul(s2.opacity, tp)), o))

\* the first loop of tColor: place advances while mod is greater than the
\* offset of the stop at place
RECURSIVE advance(_, _, _)
advance(stops, mod, place) ==
    IF place # Len(stops) /\ FLess(StopAt(stops, place).offset, mod)
    THEN advance(stops, mod, place + 1)
    ELSE place

\* the loop of the reflect case: place advances through the stops in
\* reverse while mod-1 is greater than 1 - offset
RECURSIVE advanceBack(_, _, _)
advanceBack(stops, mod, place) ==
    LET dd == Len(stops)
    IN IF place # dd * 2
          /\ FLess(FSub(Whole(1), StopAt(stops, dd * 2 - place - 1).offset),
                   FSub(mod, Whole(1)))
       THEN advanceBack(stops, mod, place + 1)
       ELSE place

\* the positive remainder of t, without the step that makes it positive
tModKeepsSign(t, modRange) == FMod(t, modRange)

\* mod of tColor: math.Mod(t, modRange), plus modRange when negative
tMod(t, modRange) ==
    LET mod == FMod(t, modRange)
    IN IF FLess(mod, Whole(0)) THEN FAdd(mod, modRange) ELSE mod

\* the early returns of tColor with the test t > 1.0 for the last stop
padEarlyStrict(gr, t) ==
    IF gr.spread # PadSpread THEN "none"
    ELSE IF FLess(Whole(1), t) THEN "last"
    ELSE IF FLeq(t, Whole(0)) THEN "first"
    ELSE "none"

\* the early returns of tColor: in pad mode, t >= 1.0 gives the last stop
\* and t <= 0.0 the first
padEarly(gr, t) ==
    IF gr.spread # PadSpread THEN "none"
    ELSE IF FLeq(Whole(1), t) THEN "last"
    ELSE IF FLeq(t, Whole(0)) THEN "first"
    ELSE "none"

\* g.tColor(t, opacity)
tColor(gr, t, o) ==
    LET dd == Len(gr.stops)
        first == StopAt(gr.stops, 0)
        last == StopAt(gr.stops, dd - 1)
        modRange == IF gr.spread = ReflectSpread THEN Whole(2) ELSE Whole(1)
        mod == tMod(t, modRange)
        place == advance(gr.stops, mod, 0)
    IN IF padEarly(gr, t) = "last" THEN ApplyOpacity(last.stopColor, FMul(last.opacity, o))
       ELSE IF padEarly(gr, t) = "first" THEN ApplyOpacity(first.stopColor, FMul(first.opacity, o))
       ELSE IF gr.spread = RepeatSpread
       THEN IF place = 0 \/ place = dd
            THEN blendStops(mod, o, last, first, FALSE)
            ELSE blendStops(mod, o, StopAt(gr.stops, place - 1), StopAt(gr.stops, place), FALSE)
       ELSE IF gr.spread = ReflectSpread
       THEN IF place = 0 THEN ApplyOpacity(first.stopColor, FMul(first.opacity, o))
            ELSE IF place = dd
            THEN LET back == advanceBack(gr.stops, mod, place)
                 IN IF back = dd THEN ApplyOpacity(last.stopColor, FMul(last.opacity, o))
                    ELSE IF back = dd * 2
                    THEN ApplyOpacity(first.stopColor, FMul(first.opacity, o))
                    ELSE blendStops(FSub(mod, Whole(1)), o,
                                    StopAt(gr.stops, dd * 2 - back),
                                    StopAt(gr.stops, dd * 2 - back - 1), TRUE)
            ELSE blendStops(mod, o, StopAt(gr.stops, place - 1), StopAt(gr.stops, place), FALSE)
       ELSE IF place = 0 THEN ApplyOpacity(first.stopColor, FMul(first.opacity, o))
            ELSE IF place = dd THEN ApplyOpacity(last.stopColor, FMul(last.opacity, o))
            ELSE blendStops(mod, o, StopAt(gr.stops, place - 1), StopAt(gr.stops, place), FALSE)

\* the stop at place i (from 1) of a stop list: its color and its opacity
\* go with the place, so that no two stops of a list look alike
StopNo(i, off) ==
    [stopColor |-> [R |-> (i * 85) % 256, G |-> (255 - i * 60) % 256,
                    B |-> (i * i * 40) % 256, A |-> 255],
     offset |-> Frac(off, Grid),
     opacity |-> IF i % 2 = 1 THEN Whole(1) ELSE Frac(1, 2)]

\* the stop lists of n stops sorted by offset, offsets in 0..1
RECURSIVE SortedOffsets(_)
SortedOffsets(n) ==
    IF n = 0 THEN {<<>>}
    ELSE {Append(q, o) : q \in SortedOffsets(n - 1), o \in 0..Grid}
            \ {q \in [1..n -> 0..Grid] : \E i \in 1..(n - 1) : q[i] > q[i + 1]}

StopLists ==
    UNION {{[i \in 1..n |-> StopNo(i, q[i])] : q \in SortedOffsets(n)} : n \in 2..MaxStops}

\* the values of t: the multiples of 1/Grid from -1 1/4 to 2 1/4, and two
\* far from the stops
TValues ==
    {Frac(n, Grid) : n \in (0 - Grid - 1)..(2 * Grid + 1)}
        \cup {Frac(n, Grid) : n \in {0 - 1000 * Grid - 1, 1000 * Grid + 1}}

\* the opacities handed in
Opacities == {Whole(1), Frac(1, 2)}

\* a gradient as GetColorFunction leaves it, its stops sorted
InitStops ==
    /\ g \in {[NoGradient EXCEPT !.stops = st, !.spread = sp] :
                 st \in StopLists, sp \in {PadSpread, ReflectSpread, RepeatSpread}}
    /\ opacity \in Opacities
    /\ arch \in {"wrap", "saturate"}
    /\ tArg = <<>>
    /\ tcol = <<>>
    /\ fns = {}
    /\ shot = <<>>
    /\ letters = {}
    /\ ErrorMode = IgnoreErrorMode
    /\ Path = <<>>
    /\ placeX = 0 /\ placeY = 0
    /\ cntlPtX = 0 /\ cntlPtY = 0
    /\ pathStartX = 0 /\ pathStartY = 0
    /\ points = <<>>
    /\ lastKey = " "
    /\ inPath = FALSE
    /\ err = NoErr
    /\ pc = "idle"
    /\ SVGPaths = <<>>
    /\ d = <<>>
    /\ absRun = NewCursor(ErrorMode)
    /\ repRun = NewCursor(ErrorMode)
    /\ prevCur = NewCursor(IgnoreErrorMode)
    /\ dataPoints = <<>>
    /\ MatrixIdle
    /\ AdderIdle

\* g.tColor(t, opacity)
TColorCall ==
    /\ tArg = <<>>
    /\ \E t \in TValues :
          /\ tArg' = <<t>>
          /\ tcol' = <<tColor(g, t, opacity)>>
    /\ UNCHANGED <<Path, placeX, placeY, cntlPtX, cntlPtY, pathStartX, pathStartY,
                   points, lastKey, ErrorMode, inPath, err, pc, SVGPaths, letters, d,
                   absRun, repRun, prevCur, dataPoints, matrixVars, adderVars,
                   g, opacity, arch, fns, shot>>

NextStops == TColorCall

SpecStops == InitStops /\ [][NextStops]_vars

(***************************************************************************)
(* What the statements about stop lookup speak of.                         *)
(***************************************************************************)
\* the stop s as a color: its channels, and the alpha of its opacity times
\* the opacity handed in
StopShown(s, o) ==
    [R |-> s.stopColor.R, G |-> s.stopColor.G, B |-> s.stopColor.B,
     A |-> FTrunc(FMul(FMul(s.opacity, o), Whole(255)))]

\* the stops lo and hi bracket t
Brackets(lo, hi, t) == FLess(lo.offset, t) /\ FLeq(t, hi.offset)

\* the linear blend of lo and hi at t: each channel and the opacity go
\* from lo's at lo.offset to hi's at hi.offset
Lerp(lo, hi, t, o) ==
    LET tp == FDiv(FSub(t, lo.offset), FSub(hi.offset, lo.offset))
        at(x, y) == FAdd(FMul(Whole(x), FSub(Whole(1), tp)), FMul(Whole(y), tp))
    IN [R |-> FTrunc(FDiv(at(lo.stopColor.R * 257, hi.stopColor.R * 257), Whole(256))),
        G |-> FTrunc(FDiv(at(lo.stopColor.G * 257, hi.stopColor.G * 257), Whole(256))),
        B |-> FTrunc(FDiv(at(lo.stopColor.B * 257, hi.stopColor.B * 257), Whole(256))),
        A |-> FTrunc(FMul(FMul(FAdd(FMul(lo.opacity, FSub(Whole(1), tp)),
                                    FMul(hi.opacity, tp)), o), Whole(255)))]

\* C17: in pad mode with two stops or more, the lookup at t <= 0 is the
\* first stop and at t >= 1 the last stop, with the stop's channels and the
\* alpha of stop opacity times the opacity handed in; at 0 < t < 1 between
\* two stops whose offsets bracket t it is the blend of these two stops.
PadLookup ==
    (tArg # <<>> /\ g.spread = PadSpread /\ Len(g.stops) >= 2) =>
        LET t == tArg[1]
            n == Len(g.stops)
        IN /\ FLeq(t, Whole(0)) => tcol[1] = StopShown(g.stops[1], opacity)
           /\ FLeq(Whole(1), t) => tcol[1] = StopShown(g.stops[n], opacity)
           /\ (FLess(Whole(0), t) /\ FLess(t, Whole(1))) =>
                 \A i \in 1..(n - 1) :
                    Brackets(g.stops[i], g.stops[i + 1], t) =>
                        tcol[1] = Lerp(g.stops[i], g.stops[i + 1], t, opacity)

\* a lookup in pad mode half way between the second and the third of three
\* stops, and so a color that is of neither
PadLookupWitness ==
    /\ tArg = <<Frac(2, Grid)>>
    /\ g.spread = PadSpread
    /\ Len(g.stops) = 3
    /\ g.stops[2].offset = Frac(1, Grid)
    /\ g.stops[3].offset = Frac(3, Grid)
    /\ opacity = Frac(1, 2)
    /\ tcol[1] = Lerp(g.stops[2], g.stops[3], Frac(2, Grid), opacity)
    /\ tcol[1].R # g.stops[2].stopColor.R
    /\ tcol[1].R # g.stops[3].stopColor.R

\* C18: in reflect mode, for a sorted list of two stops or more, two of
\* which may share an offset, and t in [0,2], the lookups at t and at 2-t
\* give the same color.
ReflectSymmetric ==
    (tArg # <<>> /\ g.spread = ReflectSpread /\ Len(g.stops) >= 2
        /\ FLeq(Whole(0), tArg[1]) /\ FLeq(tArg[1], Whole(2))) =>
            tcol[1] = tColor(g, FSub(Whole(2), tArg[1]), opacity)

\* C19: in repeat mode, for a sorted list of two stops or more and t of
\* either sign, the lookups at t and at t+1 give the same color.
RepeatPeriodic ==
    (tArg # <<>> /\ g.spread = RepeatSpread /\ Len(g.stops) >= 2) =>
        tcol[1] = tColor(g, FAdd(tArg[1], Whole(1)), opacity)

\* a lookup in repeat mode at a negative t that falls between the last
\* stop and the first
RepeatPeriodicWitness ==
    /\ tArg = <<Frac(-1, Grid)>>
    /\ g.spread = RepeatSpread
    /\ Len(g.stops) = 2
    /\ g.stops[1].offset = Frac(1, Grid)
    /\ g.stops[2].offset = Frac(2, Grid)
    /\ tcol[1] = tColor(g, Frac(Grid - 1, Grid), opacity)
    /\ tcol[1] # tColor(g, Frac(1, Grid), opacity)
    /\ tcol[1] # tColor(g, Frac(2, Grid), opacity)

(***************************************************************************)
(* GetColorFunction and the paint of a path filled with a gradient.        *)
(***************************************************************************)
\* the insertion sort of sort.Slice with a less that also holds of equals
RECURSIVE sinkTiesSwap(_, _)
sinkTiesSwap(stops, j) ==
    IF j > 1 /\ FLeq(stops[j].offset, stops[j - 1].offset)
    THEN sinkTiesSwap([stops EXCEPT ![j] = stops[j - 1], ![j - 1] = stops[j]], j - 1)
    ELSE stops

\* the inner loop of the insertion sort sort.Slice runs on a short slice:
\* the stop at j moves down while its offset is less than the one before
RECURSIVE sink(_, _)
sink(stops, j) ==
    IF j > 1 /\ FLess(stops[j].offset, stops[j - 1].offset)
    THEN sink([stops EXCEPT ![j] = stops[j - 1], ![j - 1] = stops[j]], j - 1)
    ELSE stops

\* sort.Slice(g.stops, less by offset), from the stop at i on
RECURSIVE sortFrom(_, _)
sortFrom(stops, i) ==
    IF i > Len(stops) THEN stops ELSE sortFrom(sink(stops, i), i + 1)

\* the sort that leaves the first stop where it is
sortStopsAfterFirst(stops) == sortFrom(stops, 3)

sortStops(stops) == sortFrom(stops, 2)

\* a.Invert(): the inverse matrix
Invert(a) ==
    Mat(a.D * a.den, 0 - a.B * a.den, 0 - a.C * a.den, a.A * a.den,
        a.C * a.F - a.D * a.E, a.B * a.E - a.A * a.F,
        a.A * a.D - a.B * a.C)

\* the matrix GetColorFunction hands to Invert; Scale(1/w, 1/h) has the
\* entries h and w over w*h, so a width or height of 0 leaves the
\* denominator 0: the entries are then not numbers (1/0 is +Inf, 0*Inf NaN)
GradFrame(gr) ==
    LET w == gr.bounds.W
        h == gr.bounds.H
        oriX == gr.bounds.X
        oriY == gr.bounds.Y
    IN Translate(Mult(Mult(Scale(Translate(Identity, oriX, oriY), w, h),
                           gr.matrix2D),
                      Mat(h, 0, 0, w, 0, 0, w * h)),
                 0 - oriX, 0 - oriY)

\* gradT of GetColorFunction
GradT(gr) == Invert(GradFrame(gr))

\* the largest whole number whose square is at most k
RECURSIVE Isqrt(_, _)
Isqrt(k, r) == IF (r + 1) * (r + 1) > k THEN r ELSE Isqrt(k, r + 1)

\* math.Sqrt(x), to sixteenths
FSqrt(x) == Frac(Isqrt((x.n * 256) \div x.d, 0), 16)

\* g.GetColorFunction(opacity), the stops already sorted: a color, or a
\* function of the pixel with the values it has captured
ColorFunction(gr, o) ==
    LET bx == Whole(gr.bounds.X)
        by == Whole(gr.bounds.Y)
        bw == Whole(gr.bounds.W)
        bh == Whole(gr.bounds.H)
    IN IF Len(gr.stops) = 0
       THEN [kind |-> "color", c |-> ApplyOpacity([R |-> 255, G |-> 0, B |-> 255, A |-> 255], o)]
       ELSE IF Len(gr.stops) = 1
       THEN [kind |-> "color", c |-> ApplyOpacity(gr.stops[1].stopColor, o)]
       ELSE IF gr.isRadial
       THEN [kind |-> "radial", gradT |-> GradT(gr), opacity |-> o,
             cx |-> FAdd(bx, FMul(bw, gr.points[1])),
             cy |-> FAdd(by, FMul(bh, gr.points[2])),
             rx |-> FMul(bw, gr.points[5]),
             ry |-> FMul(bh, gr.points[5])]
       ELSE LET p1x == FAdd(bx, FMul(bw, gr.points[1]))
                p1y == FAdd(by, FMul(bh, gr.points[2]))
                p2x == FAdd(bx, FMul(bw, gr.points[3]))
                p2y == FAdd(by, FMul(bh, gr.points[4]))
                dx == FSub(p2x, p1x)
                dy == FSub(p2y, p1y)
            IN [kind |-> "linear", gradT |-> GradT(gr), opacity |-> o,
                p1x |-> p1x, p1y |-> p1y, dx |-> dx, dy |-> dy,
                d |-> FAdd(FMul(dx, dx), FMul(dy, dy))]

\* the t a color function hands to tColor at the pixel (xi, yi)
TAt(f, xi, yi) ==
    LET q == Transform(f.gradT, Pt(2 * xi + 1, 2 * yi + 1, 2))
        x == Frac(q.x, q.den)
        y == Frac(q.y, q.den)
    IN IF f.kind = "radial"
       THEN LET dx == FSub(x, f.cx)
                dy == FSub(y, f.cy)
            IN FSqrt(FAdd(FDiv(FMul(dx, dx), FMul(f.rx, f.rx)),
                          FDiv(FMul(dy, dy), FMul(f.ry, f.ry))))
       ELSE LET dfx == FSub(x, f.p1x)
                dfy == FSub(y, f.p1y)
            IN FDiv(FAdd(FMul(f.dx, dfx), FMul(f.dy, dfy)), f.d)

\* the color the scanner gets at the pixel (xi, yi): the color itself, or
\* the call of the function, which reads the stops and the spread of the
\* gradient gr it points to
ColorAt(f, gr, xi, yi) ==
    IF f.kind = "color" THEN f.c ELSE tColor(gr, TAt(f, xi, yi), f.opacity)

\* the stops of a gradient in the order of the document
RECURSIVE ParsedOffsets(_)
ParsedOffsets(n) ==
    IF n = 0 THEN {<<>>}
    ELSE {Append(q, o) : q \in ParsedOffsets(n - 1), o \in {1, Grid}}

ParsedStops ==
    UNION {{[i \in 1..n |-> StopNo(i, q[i])] : q \in ParsedOffsets(n)} : n \in 0..MaxStops}

\* icon.ViewBox
ViewBox == [X |-> 0, Y |-> 0, W |-> 4, H |-> 4]

\* the extents of the paths painted
Extents == {[X |-> 0, Y |-> 0, W |-> 2, H |-> 2], [X |-> 1, Y |-> 0, W |-> 4, H |-> 2]}

\* the values of gradientTransform
GradMatrices == {Identity, Mat(2, 0, 0, 1, 1, 0, 1)}

\* the pixels sampled
Pixels == {<<0, 0>>, <<1, 0>>, <<3, 2>>}

\* x1, y1, x2, y2 of a linear gradient and cx, cy, fx, fy, r of a radial
\* one, as ReadIconStream sets them
LinearPoints == <<Whole(0), Whole(0), Whole(1), Whole(0), Whole(0)>>
RadialPoints == <<Frac(1, 2), Frac(1, 2), Frac(1, 2), Frac(1, 2), Frac(1, 2)>>

\* a gradient as read from the document, not painted yet
InitGradient ==
    /\ \E st \in ParsedStops, sp \in {PadSpread, ReflectSpread, RepeatSpread},
          un \in {ObjectBoundingBox, UserSpaceOnUse}, rad \in BOOLEAN,
          m \in GradMatrices :
          g = [points |-> IF rad THEN RadialPoints ELSE LinearPoints,
               stops |-> st, bounds |-> ViewBox, matrix2D |-> m,
               spread |-> sp, units |-> un, isRadial |-> rad]
    /\ opacity \in Opacities
    /\ arch \in IF g.spread = RepeatSpread THEN {"wrap", "saturate"} ELSE {"wrap"}
    /\ tArg = <<>>
    /\ tcol = <<>>
    /\ fns = {}
    /\ shot = <<>>
    /\ letters = {}
    /\ ErrorMode = IgnoreErrorMode
    /\ Path = <<>>
    /\ placeX = 0 /\ placeY = 0
    /\ cntlPtX = 0 /\ cntlPtY = 0
    /\ pathStartX = 0 /\ pathStartY = 0
    /\ points = <<>>
    /\ lastKey = " "
    /\ inPath = FALSE
    /\ err = NoErr
    /\ pc = "idle"
    /\ SVGPaths = <<>>
    /\ d = <<>>
    /\ absRun = NewCursor(ErrorMode)
    /\ repRun = NewCursor(ErrorMode)
    /\ prevCur = NewCursor(IgnoreErrorMode)
    /\ dataPoints = <<>>
    /\ MatrixIdle
    /\ AdderIdle

GradientFrame ==
    UNCHANGED <<Path, placeX, placeY, cntlPtX, cntlPtY, pathStartX, pathStartY,
                points, lastKey, ErrorMode, inPath, err, pc, SVGPaths, letters, d,
                absRun, repRun, prevCur, dataPoints, matrixVars, adderVars,
                opacity, arch>>

\* SvgPath.Draw of a path filled with the gradient: with ObjectBoundingBox
\* units the bounds become the extent of the path, then GetColorFunction
\* sorts the stops and returns the color function the scanner is given;
\* fns is the set of the color functions returned so far
DrawGradient ==
    /\ \E fRect \in Extents :
          LET bounded == IF g.units = ObjectBoundingBox
                         THEN [g EXCEPT !.bounds = fRect] ELSE g
              sorted == IF Len(g.stops) < 2 THEN bounded
                        ELSE [bounded EXCEPT !.stops = sortStops(g.stops)]
          IN /\ g' = sorted
             /\ fns' = fns \cup {ColorFunction(sorted, opacity)}
    /\ UNCHANGED <<tArg, tcol, shot>>
    /\ GradientFrame

\* the scanner asks a color function it was given for the color of a pixel
SampleColor ==
    /\ \E f \in fns, px \in Pixels :
          /\ shot' = <<[fn |-> f, px |-> px]>>
          /\ tArg' = IF f.kind = "color" THEN <<>> ELSE <<TAt(f, px[1], px[2])>>
          /\ tcol' = <<ColorAt(f, g, px[1], px[2])>>
    /\ UNCHANGED <<g, fns>>
    /\ GradientFrame

NextGradient == DrawGradient \/ SampleColor

SpecGradient == InitGradient /\ [][NextGradient]_vars

\* C16: GetColorFunction of a gradient without stops returns the color
\* (255,0,255) with the alpha of the opacity given, and of a gradient with
\* one stop the color of that stop, as a color and not a function of the
\* pixel, whatever the spread, the kind and the bounds.
FewStopsConstant ==
    \A f \in fns :
        /\ Len(g.stops) = 0 =>
              f = [kind |-> "color",
                        c |-> [R |-> 255, G |-> 0, B |-> 255,
                               A |-> FTrunc(FMul(opacity, Whole(255)))]]
        /\ Len(g.stops) = 1 =>
              /\ f.kind = "color"
              /\ f.c.R = g.stops[1].stopColor.R
              /\ f.c.G = g.stops[1].stopColor.G
              /\ f.c.B = g.stops[1].stopColor.B
              /\ f.c.A = FTrunc(FMul(opacity, Whole(255)))

\* a radial gradient of one stop in reflect mode, painted over the extent
\* of a path at half opacity, and sampled
FewStopsConstantWitness ==
    /\ Len(g.stops) = 1
    /\ g.isRadial
    /\ g.spread = ReflectSpread
    /\ g.units = ObjectBoundingBox
    /\ fns # {}
    /\ g.bounds # ViewBox
    /\ opacity = Frac(1, 2)
    /\ shot # <<>>
    /\ tcol = <<[R |-> 85, G |-> 195, B |-> 40, A |-> 127]>>

RECURSIVE advanceReads(_, _, _)
advanceReads(stops, mod, place) ==
    IF place # Len(stops)
    THEN {place} \cup (IF FLess(StopAt(stops, place).offset, mod)
                       THEN advanceReads(stops, mod, place + 1) ELSE {})
    ELSE {}

\* the reads of the reverse loop without its test place != d*2; the walk
\* ends at the read of an index that is not in the slice
RECURSIVE backReadsUnguarded(_, _, _)
backReadsUnguarded(stops, mod, place) ==
    LET dd == Len(stops)
        i == dd * 2 - place - 1
    IN {i} \cup (IF i \in 0..(dd - 1)
                    /\ FLess(FSub(Whole(1), StopAt(stops, i).offset), FSub(mod, Whole(1)))
                 THEN backReadsUnguarded(stops, mod, place + 1) ELSE {})

\* the indices the reverse loop of the reflect case reads from place on
RECURSIVE backReads(_, _, _)
backReads(stops, mod, place) ==
    LET dd == Len(stops)
        i == dd * 2 - place - 1
    IN IF place # dd * 2
       THEN {i} \cup (IF i \in 0..(dd - 1)
                         /\ FLess(FSub(Whole(1), StopAt(stops, i).offset), FSub(mod, Whole(1)))
                      THEN backReads(stops, mod, place + 1) ELSE {})
       ELSE {}

\* the indices of g.stops that g.tColor(t, opacity) reads
stopsRead(gr, t) ==
    LET dd == Len(gr.stops)
        modRange == IF gr.spread = ReflectSpread THEN Whole(2) ELSE Whole(1)
        mod == tMod(t, modRange)
        place == advance(gr.stops, mod, 0)
        loop == advanceReads(gr.stops, mod, 0)
    IN IF padEarly(gr, t) = "last" THEN {dd - 1}
       ELSE IF padEarly(gr, t) = "first" THEN {0}
       ELSE IF gr.spread = RepeatSpread
       THEN loop \cup (IF place = 0 \/ place = dd THEN {dd - 1, 0} ELSE {place - 1, place})
       ELSE IF gr.spread = ReflectSpread
       THEN IF place = 0 THEN loop \cup {0}
            ELSE IF place = dd
            THEN LET back == advanceBack(gr.stops, mod, place)
                 IN loop \cup backReads(gr.stops, mod, place)
                         \cup (IF back = dd THEN {dd - 1}
                               ELSE IF back = dd * 2 THEN {0}
                               ELSE {dd * 2 - back, dd * 2 - back - 1})
            ELSE loop \cup {place - 1, place}
       ELSE loop \cup (IF place = 0 THEN {0}
                       ELSE IF place = dd THEN {dd - 1}
                       ELSE {place - 1, place})

\* a color.NRGBA
Colors == [R : 0..255, G : 0..255, B : 0..255, A : 0..255]

\* C21: for a gradient of two stops or more, every spread and every t,
\* tColor reads only the stops at the indices 0..len(stops)-1, the reverse
\* walk of the reflect case included, and returns a color.
LookupInRange ==
    (tArg # <<>> /\ Len(g.stops) >= 2) =>
        /\ stopsRead(g, tArg[1]) \subseteq 0..(Len(g.stops) - 1)
        /\ tcol[1].R \in 0..255 /\ tcol[1].G \in 0..255
        /\ tcol[1].B \in 0..255 /\ tcol[1].A \in 0..255

\* a lookup in reflect mode whose reverse walk goes through every stop
\* down to the first, at a t far below zero
LookupInRangeWitness ==
    /\ tArg = <<Frac(0 - 1000 * Grid - 1, Grid)>>
    /\ g.spread = ReflectSpread
    /\ Len(g.stops) = MaxStops
    /\ g.stops[1].offset = Frac(2, Grid)
    /\ advanceBack(g.stops, tMod(tArg[1], Whole(2)), Len(g.stops)) = 2 * Len(g.stops)
    /\ stopsRead(g, tArg[1]) = 0..(Len(g.stops) - 1)

(***************************************************************************)
(* Arcs, set by set.                                                       *)
(***************************************************************************)
\* the end point (x2, y2) of set t (from 1) of an arc command with the
\* absolute parameters abs
ArcEnd(abs, t) == <<abs[7 * t - 1], abs[7 * t]>>

\* C22: an A or a command emits at least one CubeBezier for every
\* parameter set, the last CubeBezier emitted ends at the 26.6 image of
\* the end point (x2, y2) of the arc (for a: the pen plus the offsets),
\* and the pen is then at (x2, y2).
ArcEndsExact ==
    [][(IsAddSeg /\ d'[Len(d')].k \in {"a", "A"} /\ WellFormed(d'[Len(d')])) =>
        LET seg == d'[Len(d')]
            n == NumSets(seg)
            abs == AbsParams(seg.k, seg.txt.pts, placeX, placeY)
        IN /\ err' = NoErr
           /\ Len(Emitted) >= n
           /\ \A i \in 1..Len(Emitted) : Emitted[i].op = "CubeBezier"
           /\ CmdEnd(Emitted[Len(Emitted)]) = FixPt(ArcEnd(abs, n)[1], ArcEnd(abs, n)[2])
           /\ <<placeX', placeY'>> = ArcEnd(abs, n)]_vars

(***************************************************************************)
(* Paths at the edge of the 26.6 range.  fixed.Int26_6 is an int32, and    *)
(* 16 million pixels times 64 is half of what it holds.  In the paths      *)
(* below a parameter v stands for v * BigUnit of the units of Fix, that is *)
(* v * 2^19 pixels: the cursor only adds, subtracts and doubles            *)
(* coordinates, every parameter is even and float64 holds these multiples  *)
(* exactly, so a command holds Fix(v) * BigUnit where the model holds      *)
(* Fix(v).                                                                 *)
(***************************************************************************)
\* 2^26 units of 1/128 pixel
BigUnit == 67108864

\* the largest even multiple of 2^19 pixels within 16 million pixels:
\* 15,728,640
CoordLimit == 30

\* the largest int32
MaxInt32 == 2147483647

\* the 26.6 number e * BigUnit is an int32
FitsInt26_6(e) ==
    /\ e >= (0 - MaxInt32 - 1) \div BigUnit
    /\ e <= MaxInt32 \div BigUnit

\* the corners of the square of side 2 * CoordLimit
Corners == {<<x, y>> : x \in {0 - CoordLimit, CoordLimit}, y \in {0 - CoordLimit, CoordLimit}}

\* path texts with every parameter at plus or minus CoordLimit
BigPaths ==
    {<<Seg("M", p), Seg("Q", c \o e), Seg("T", f)>> :
        p \in Corners, c \in Corners, e \in Corners, f \in Corners}
    \cup {<<Seg("M", p), Seg("S", c \o e), Seg("S", f \o e)>> :
        p \in Corners, c \in Corners, e \in Corners, f \in Corners}
    \cup {<<Seg("M", p), Seg("Q", c \o e), Seg("L", f)>> :
        p \in Corners, c \in Corners, e \in Corners, f \in Corners}
    \cup {<<Seg("M", p), Seg("l", e \o f)>> :
        p \in Corners, e \in Corners, f \in Corners}

InitBig ==
    /\ letters = {}
    /\ ErrorMode = IgnoreErrorMode
    /\ Path = <<>>
    /\ placeX = 0 /\ placeY = 0
    /\ cntlPtX = 0 /\ cntlPtY = 0
    /\ pathStartX = 0 /\ pathStartY = 0
    /\ points = <<>>
    /\ lastKey = " "
    /\ inPath = FALSE
    /\ err = NoErr
    /\ pc = "idle"
    /\ SVGPaths = <<>>
    /\ d \in BigPaths
    /\ absRun = NewCursor(ErrorMode)
    /\ repRun = NewCursor(ErrorMode)
    /\ CalcIdle

\* CompilePath on the path text d
CompilePathBig ==
    /\ pc = "idle"
    /\ SetCur(walk(init(Cur), d, 1))
    /\ pc' = "compiled"
    /\ UNCHANGED <<SVGPaths, letters, d, absRun, repRun, calcVars>>

NextBig == CompilePathBig

SpecBig == InitBig /\ [][NextBig]_vars

\* every coordinate of every command of the Path
PathCoords ==
    UNION {{Path[i].pts[j][1], Path[i].pts[j][2]} :
              <<i, j>> \in {q \in (1..Len(Path)) \X (1..3) : q[2] <= Len(Path[q[1]].pts)}}

\* C23: for a path with every coordinate within 16 million pixels, each
\* coordinate CompilePath emits, times 64, is an int32: the reflected
\* control points of S and T and the sums of relative coordinates too.
NoOverflow26_6 ==
    pc = "compiled" => \A e \in PathCoords : FitsInt26_6(e)

(***************************************************************************)
(* The stops after GetColorFunction.                                       *)
(***************************************************************************)
\* the offsets of the stops are in non-decreasing order
OffsetsSorted(stops) ==
    \A i \in 1..(Len(stops) - 1) : FLeq(stops[i].offset, stops[i + 1].offset)

\* how many times the stop s is in the list
TimesIn(stops, s) == Cardinality({i \in 1..Len(stops) : stops[i] = s})

\* the two lists hold the same stops, each as many times
SameStops(a, b) ==
    /\ Len(a) = Len(b)
    /\ \A i \in 1..Len(a) : TimesIn(a, a[i]) = TimesIn(b, a[i])

\* C24: once GetColorFunction has run on a gradient of two stops or more,
\* the offsets of its stops are in non-decreasing order, whatever the order
\* they were appended in, and the stops are the same stops as before.
StopsSortedAfter ==
    [][/\ SameStops(g'.stops, g.stops)
       /\ (fns' # {} /\ Len(g'.stops) >= 2) => OffsetsSorted(g'.stops)]_vars

\* GetColorFunction has run on three stops of which the one appended last
\* has the smallest offset and is now the first
StopsSortedAfterWitness ==
    /\ fns # {}
    /\ Len(g.stops) = 3
    /\ g.stops[1].stopColor = StopNo(3, 1).stopColor
    /\ g.stops[3].stopColor = StopNo(2, 1).stopColor
    /\ FLess(g.stops[1].offset, g.stops[2].offset)
    /\ OffsetsSorted(g.stops)

(***************************************************************************)
(* What tColor hands to blendStops, and the blend parameter tp.            *)
(***************************************************************************)
\* a return of tColor that is one stop with its opacity times the opacity
\* handed in
OneStop(s) == [blend |-> FALSE, s |-> s]

\* a return of tColor that is g.blendStops(t, opacity, s1, s2, flip)
Blend(t, s1, s2, flip) == [blend |-> TRUE, t |-> t, s1 |-> s1, s2 |-> s2, flip |-> flip]

\* the return statement g.tColor(t, opacity) reaches
tColorReturn(gr, t) ==
    LET dd == Len(gr.stops)
        first == StopAt(gr.stops, 0)
        last == StopAt(gr.stops, dd - 1)
        modRange == IF gr.spread = ReflectSpread THEN Whole(2) ELSE Whole(1)
        mod == tMod(t, modRange)
        place == advance(gr.stops, mod, 0)
    IN IF padEarly(gr, t) = "last" THEN OneStop(last)
       ELSE IF padEarly(gr, t) = "first" THEN OneStop(first)
       ELSE IF gr.spread = RepeatSpread
       THEN IF place = 0 \/ place = dd
            THEN Blend(mod, last, first, FALSE)
            ELSE Blend(mod, StopAt(gr.stops, place - 1), StopAt(gr.stops, place), FALSE)
       ELSE IF gr.spread = ReflectSpread
       THEN IF place = 0 THEN OneStop(first)
            ELSE IF place = dd
            THEN LET back == advanceBack(gr.stops, mod, place)
                 IN IF back = dd THEN OneStop(last)
                    ELSE IF back = dd * 2 THEN OneStop(first)
                    ELSE Blend(FSub(mod, Whole(1)), StopAt(gr.stops, dd * 2 - back),
                               StopAt(gr.stops, dd * 2 - back - 1), TRUE)
            ELSE Blend(mod, StopAt(gr.stops, place - 1), StopAt(gr.stops, place), FALSE)
       ELSE IF place = 0 THEN OneStop(first)
            ELSE IF place = dd THEN OneStop(last)
            ELSE Blend(mod, StopAt(gr.stops, place - 1), StopAt(gr.stops, place), FALSE)

\* s1off of blendStops
blendS1off(s1, s2, flip) ==
    IF FLess(s2.offset, s1.offset) /\ ~flip THEN FSub(s1.offset, Whole(1)) ELSE s1.offset

\* blendStops returns s2 at once: s2.offset == s1off
blendEqual(s1, s2, flip) == s2.offset = blendS1off(s1, s2, flip)

\* tp of blendStops, where s2.offset != s1off
blendTp(t, s1, s2, flip) ==
    LET wrap == FLess(s2.offset, s1.offset) /\ ~flip
        s1off == blendS1off(s1, s2, flip)
        t1 == IF wrap /\ FLess(Whole(1), t) THEN FSub(t, Whole(1)) ELSE t
        t2 == IF flip THEN FSub(Whole(1), t1) ELSE t1
    IN FDiv(FSub(t2, s1off), FSub(s2.offset, s1off))

\* the alpha of the opacity o: uint8(o * 255) for o in [0,1]
AlphaOf(o) == FTrunc(FMul(o, Whole(255)))

\* x lies between a and b
Between(x, a, b) == (a <= x /\ x <= b) \/ (b <= x /\ x <= a)

\* C25: every color the lookup returns has the alpha of
\* (a*(1-tp) + b*tp) times the opacity handed in, a and b the opacities of
\* the two stops of the blend and tp its parameter (a stop returned alone
\* is its own blend); between two stops of equal offsets too, where tp is
\* any value of [0,1].
AlphaScaled ==
    (tArg # <<>> /\ Len(g.stops) >= 2) =>
        LET r == tColorReturn(g, tArg[1])
        IN IF ~r.blend THEN tcol[1].A = AlphaOf(FMul(r.s.opacity, opacity))
           ELSE IF blendEqual(r.s1, r.s2, r.flip)
           THEN Between(tcol[1].A, AlphaOf(FMul(r.s1.opacity, opacity)),
                        AlphaOf(FMul(r.s2.opacity, opacity)))
           ELSE LET tp == blendTp(r.t, r.s1, r.s2, r.flip)
                IN tcol[1].A = AlphaOf(FMul(FAdd(FMul(r.s1.opacity, FSub(Whole(1), tp)),
                                                 FMul(r.s2.opacity, tp)), opacity))

\* C30: for a sorted list of two stops or more with offsets in [0,1],
\* every spread and every t, the tp of blendStops lies in [0,1] and each
\* channel returned lies between the channels of the two stops of the
\* blend; in repeat mode too, when t mod 1 is above the offset of the last
\* stop or below the offset of the first.
BlendWithinStops ==
    (tArg # <<>> /\ Len(g.stops) >= 2) =>
        LET r == tColorReturn(g, tArg[1])
        IN (r.blend /\ ~blendEqual(r.s1, r.s2, r.flip)) =>
              LET tp == blendTp(r.t, r.s1, r.s2, r.flip)
              IN /\ FLeq(Whole(0), tp) /\ FLeq(tp, Whole(1))
                 /\ Between(tcol[1].R, r.s1.stopColor.R, r.s2.stopColor.R)
                 /\ Between(tcol[1].G, r.s1.stopColor.G, r.s2.stopColor.G)
                 /\ Between(tcol[1].B, r.s1.stopColor.B, r.s2.stopColor.B)

(***************************************************************************)
(* parseTransform.  A transform text is held as the items strings.Split    *)
(* and GetPoints make of it: the name before the parenthesis, lower case,  *)
(* and the numbers between the parentheses.  The numbers are whole, and    *)
(* an angle is a multiple of 90 degrees.                                   *)
(***************************************************************************)
Item(name, pts) == [name |-> name, points |-> pts]

\* x * math.Pi / 180 for x a multiple of 90, by the cosine, sine and tangent
\* of it; the tangent is used for the multiples of 180 only
Radians(x) ==
    LET q == (x \div 90) % 4
    IN Angle(CASE q = 0 -> 1 [] q = 2 -> -1 [] OTHER -> 0,
             CASE q = 1 -> 1 [] q = 3 -> -1 [] OTHER -> 0,
             1, 0, 1)

\* c.parseTransform(v) from the matrix m1 of the top of the style stack:
\* the matrix returned and the error
RECURSIVE parseTransform(_, _)
parseTransform(m1, ts) ==
    IF ts = <<>> THEN [M |-> m1, err |-> NoErr]
    ELSE LET t == Head(ts)
             p == t.points
             ln == Len(p)
             bad == [M |-> m1, err |-> paramMismatchError]
         IN CASE t.name = "rotate" ->
                   IF ln = 1 THEN parseTransform(Rotate(m1, Radians(p[1])), Tail(ts))
                   ELSE IF ln = 3
                   THEN parseTransform(Translate(Rotate(Translate(m1, p[2], p[3]),
                                                        Radians(p[1])),
                                                 0 - p[2], 0 - p[3]), Tail(ts))
                   ELSE bad
              [] t.name = "translate" ->
                   IF ln = 1 THEN parseTransform(Translate(m1, p[1], 0), Tail(ts))
                   ELSE IF ln = 2 THEN parseTransform(Translate(m1, p[1], p[2]), Tail(ts))
                   ELSE bad
              [] t.name = "skewx" ->
                   IF ln = 1 THEN parseTransform(SkewX(m1, Radians(p[1])), Tail(ts))
                   ELSE bad
              [] t.name = "skewy" ->
                   IF ln = 1 THEN parseTransform(SkewY(m1, Radians(p[1])), Tail(ts))
                   ELSE bad
              [] t.name = "scale" ->
                   IF ln = 1 THEN parseTransform(Scale(m1, p[1], 0), Tail(ts))
                   ELSE IF ln = 2 THEN parseTransform(Scale(m1, p[1], p[2]), Tail(ts))
                   ELSE bad
              [] t.name = "matrix" ->
                   IF ln = 6
                   THEN parseTransform(Mult(m1, Mat(p[1], p[2], p[3], p[4], p[5], p[6], 1)),
                                       Tail(ts))
                   ELSE bad
              [] OTHER -> bad

\* the transform texts read: each function with each count of numbers it
\* takes, one count it does not take, a name that is no function, and a
\* text of two functions
TransformTexts ==
    { <<Item("rotate", <<90>>)>>, <<Item("rotate", <<90, 2, -1>>)>>,
      <<Item("rotate", <<180, 1, 1>>)>>, <<Item("rotate", <<0, 2, -1>>)>>,
      <<Item("rotate", <<90, 0, 0>>)>>, <<Item("rotate", <<90, 2>>)>>,
      <<Item("translate", <<2>>)>>, <<Item("translate", <<-1, 2>>)>>,
      <<Item("skewx", <<180>>)>>, <<Item("skewy", <<0>>)>>,
      <<Item("scale", <<2>>)>>, <<Item("scale", <<2, 3>>)>>,
      <<Item("scale", <<1, 2, 3>>)>>,
      <<Item("matrix", <<1, 1, 0, 2, -1, 3>>)>>,
      <<Item("spin", <<1>>)>>,
      <<Item("translate", <<2, 1>>), Item("scale", <<2, 2>>)>> }

\* the extents of the paths painted: a square, a horizontal line and a
\* vertical line
PathExtents ==
    { [X |-> 0, Y |-> 0, W |-> 2, H |-> 2],
      [X |-> 1, Y |-> 0, W |-> 4, H |-> 0],
      [X |-> 0, Y |-> 1, W |-> 0, H |-> 3] }

\* a matrix of six numbers with an inverse
Invertible(m) == m.den # 0 /\ m.A * m.D - m.B * m.C # 0

\* a linear gradient of two stops as the start tag leaves it, and the
\* matrix of the top of the style stack
InitTransform ==
    /\ matA \in Matrices
    /\ matB = Identity
    /\ pt = Pt(0, 0, 1)
    /\ op = <<"none">>
    /\ matR = Identity
    /\ ptR = <<>>
    /\ \E un \in {ObjectBoundingBox, UserSpaceOnUse} :
          g = [points |-> LinearPoints,
               stops |-> <<StopNo(1, 1), StopNo(2, Grid)>>,
               bounds |-> ViewBox, matrix2D |-> Identity,
               spread |-> PadSpread, units |-> un, isRadial |-> FALSE]
    /\ opacity = Whole(1)
    /\ arch = "wrap"
    /\ tArg = <<>>
    /\ tcol = <<>>
    /\ fns = {}
    /\ shot = <<>>
    /\ letters = {}
    /\ ErrorMode = IgnoreErrorMode
    /\ Path = <<>>
    /\ placeX = 0 /\ placeY = 0
    /\ cntlPtX = 0 /\ cntlPtY = 0
    /\ pathStartX = 0 /\ pathStartY = 0
    /\ points = <<>>
    /\ lastKey = " "
    /\ inPath = FALSE
    /\ err = NoErr
    /\ pc = "idle"
    /\ SVGPaths = <<>>
    /\ d = <<>>
    /\ absRun = NewCursor(ErrorMode)
    /\ repRun = NewCursor(ErrorMode)
    /\ prevCur = NewCursor(IgnoreErrorMode)
    /\ dataPoints = <<>>
    /\ AdderIdle

TransformFrame ==
    UNCHANGED <<Path, placeX, placeY, cntlPtX, cntlPtY, pathStartX, pathStartY,
                points, lastKey, ErrorMode, inPath, pc, SVGPaths, letters, d,
                absRun, repRun, prevCur, dataPoints, matA, matB, pt, ptR,
                adderVars, opacity, tArg, tcol, arch, shot>>

\* the transform attribute of an element: parseTransform from the matrix of
\* the top of the style stack
ParseTransformAttr ==
    /\ \E v \in TransformTexts :
          /\ op' = <<"parseTransform", v>>
          /\ matR' = parseTransform(matA, v).M
          /\ err' = parseTransform(matA, v).err
    /\ UNCHANGED <<g, fns>>
    /\ TransformFrame

\* ReadGradAttr, case "gradientTransform"
ReadGradAttr ==
    /\ fns = {}
    /\ \E v \in TransformTexts :
          /\ op' = <<"gradientTransform", v>>
          /\ g' = [g EXCEPT !.matrix2D = parseTransform(matA, v).M]
          /\ err' = parseTransform(matA, v).err
    /\ UNCHANGED <<matR, fns>>
    /\ TransformFrame

\* SvgPath.Draw of a path filled with the gradient: the bounds become the
\* extent of the path for ObjectBoundingBox, and GetColorFunction builds the
\* frame it inverts; matR is the frame handed to Invert, and the color
\* function is recorded when the frame has an inverse
DrawFrame ==
    /\ err = NoErr
    /\ \E fRect \in PathExtents :
          LET bounded == IF g.units = ObjectBoundingBox
                         THEN [g EXCEPT !.bounds = fRect] ELSE g
          IN /\ g' = [bounded EXCEPT !.stops = sortStops(g.stops)]
             /\ matR' = GradFrame(bounded)
             /\ fns' = IF Invertible(GradFrame(bounded))
                       THEN fns \cup {ColorFunction(g', opacity)} ELSE fns
    /\ op' = <<"GetColorFunction">>
    /\ UNCHANGED err
    /\ TransformFrame

NextTransform == ParseTransformAttr \/ ReadGradAttr \/ DrawFrame

SpecTransform == InitTransform /\ [][NextTransform]_vars

\* C26: the frame GetColorFunction builds from the bounds and the parsed
\* gradientTransform has an inverse (a determinant that is a number and
\* not 0), for every gradientTransform the parser accepts, scale(sx) with
\* one number included, and every extent of a painted path, a width or a
\* height of 0 included.
FrameInvertible == op[1] = "GetColorFunction" => Invertible(matR)

\* C27: rotate(theta, cx, cy) on the current matrix M gives
\* M * T(cx,cy) * R(theta) * T(-cx,-cy), which maps the point (cx, cy) to
\* M.Transform(cx, cy).
RotateAboutCenter ==
    (/\ op[1] = "parseTransform"
     /\ Len(op[2]) = 1
     /\ op[2][1].name = "rotate"
     /\ Len(op[2][1].points) = 3) =>
        LET p == op[2][1].points
            th == Radians(p[1])
            c == Pt(p[2], p[3], 1)
            T(x, y) == Mat(1, 0, 0, 1, x, y, 1)
            R == Mat(th.cos, th.sin, 0 - th.sin, th.cos, 0, 0, th.den)
        IN /\ SameMatrix(matR, Mult(Mult(Mult(matA, T(p[2], p[3])), R),
                                    T(0 - p[2], 0 - p[3])))
           /\ SamePoint(Transform(matR, c), Transform(matA, c))

(***************************************************************************)
(* SvgPath.Draw, statement by statement.  pc is <<phase, statement>>: the  *)
(* phase is the fill or the stroke ("line"), the statement the one Draw    *)
(* runs next.  op holds <<"Draw", fillerColor, linerColor>>, each of them  *)
(* "nil", "color" or "gradient"; the gradient is g for both.  The scanner  *)
(* is held by the commands it has received, mAdder.Adder.                  *)
(***************************************************************************)
\* Draw with the bounds taken before the path is fed
AfterBoundsFirst(at) ==
    CASE at = "Clear" -> "bounds"
      [] at = "bounds" -> "AddTo"
      [] at = "AddTo" -> "SetColor"
      [] at = "SetColor" -> "Draw"
      [] OTHER -> "end"

\* the statement of Draw that follows the statement at, in a phase
After(at) ==
    CASE at = "Clear" -> "AddTo"
      [] at = "AddTo" -> "bounds"
      [] at = "bounds" -> "SetColor"
      [] at = "SetColor" -> "Draw"
      [] OTHER -> "end"

\* where Draw goes from the statement at of the phase ph
Goto(ph, at) ==
    IF After(at) # "end" THEN <<ph, After(at)>>
    ELSE IF ph = "fill" /\ op[3] # "nil" THEN <<"line", "Clear">>
    ELSE <<"done", "end">>

\* the color of the phase: svgp.fillerColor or svgp.linerColor
PaintOf(ph) == IF ph = "fill" THEN op[2] ELSE op[3]

\* what the MatrixAdder hands on for the command cmd
Fwd(m, cmd) == [cmd EXCEPT !.pts = [j \in DOMAIN cmd.pts |-> TFixed(m, cmd.pts[j])]]

\* Scanner.GetPathExtent() of a scanner that received the commands adder,
\* all of them lines: the rectangle around the points, and the empty
\* rectangle when there are none
GetPathExtent(adder) ==
    LET pts == UNION {{adder[i].pts[j] : j \in DOMAIN adder[i].pts} : i \in DOMAIN adder}
        xs == {q[1] : q \in pts}
        ys == {q[2] : q \in pts}
        lo(S) == CHOOSE x \in S : \A y \in S : x <= y
        hi(S) == CHOOSE x \in S : \A y \in S : x >= y
    IN IF pts = {} THEN [Min |-> <<0, 0>>, Max |-> <<0, 0>>]
       ELSE [Min |-> <<lo(xs), lo(ys)>>, Max |-> <<hi(xs), hi(ys)>>]

\* the bounds Draw takes from the extent fRect, coordinates that are whole
\* pixels
BoundsOf(fRect) ==
    LET mnx == fRect.Min[1] \div 64
        mny == fRect.Min[2] \div 64
        mxx == fRect.Max[1] \div 64
        mxy == fRect.Max[2] \div 64
    IN [X |-> mnx, Y |-> mny, W |-> mxx - mnx, H |-> mxy - mny]

\* the paths drawn: a square and a triangle, on whole pixels
DrawPaths ==
    { <<CmdStart(<<0, 0>>), CmdLine(<<128, 0>>), CmdLine(<<128, 128>>),
        CmdLine(<<0, 128>>), CmdStop(TRUE)>>,
      <<CmdStart(<<64, 0>>), CmdLine(<<192, 64>>), CmdLine(<<64, 128>>), CmdStop(TRUE)>> }

\* an SvgPath with its colors, before Draw
InitDraw ==
    /\ Path \in DrawPaths
    /\ mAdder \in [M : {Identity, Mat(2, 0, 0, 2, 1, 0, 1)}, Adder : {<<>>}]
    /\ fed = 0
    /\ \E fc \in {"nil", "color", "gradient"}, lc \in {"nil", "color", "gradient"} :
          /\ op = <<"Draw", fc, lc>>
          /\ pc = IF fc # "nil" THEN <<"fill", "Clear">>
                  ELSE IF lc # "nil" THEN <<"line", "Clear">>
                  ELSE <<"done", "end">>
    /\ \E un \in {ObjectBoundingBox, UserSpaceOnUse},
          st \in {<<StopNo(1, Grid), StopNo(2, 1)>>, <<StopNo(1, 1)>>} :
          g = [points |-> LinearPoints, stops |-> st,
               bounds |-> ViewBox, matrix2D |-> Identity,
               spread |-> PadSpread, units |-> un, isRadial |-> FALSE]
    /\ opacity \in Opacities
    /\ arch = "wrap"
    /\ tArg = <<>>
    /\ tcol = <<>>
    /\ fns = {}
    /\ shot = <<>>
    /\ matA = Identity /\ matB = Identity
    /\ pt = Pt(0, 0, 1)
    /\ matR = Identity
    /\ ptR = <<>>
    /\ letters = {}
    /\ ErrorMode = IgnoreErrorMode
    /\ placeX = 0 /\ placeY = 0
    /\ cntlPtX = 0 /\ cntlPtY = 0
    /\ pathStartX = 0 /\ pathStartY = 0
    /\ points = <<>>
    /\ lastKey = " "
    /\ inPath = FALSE
    /\ err = NoErr
    /\ SVGPaths = <<>>
    /\ d = <<>>
    /\ absRun = NewCursor(ErrorMode)
    /\ repRun = NewCursor(ErrorMode)
    /\ prevCur = NewCursor(IgnoreErrorMode)
    /\ dataPoints = <<>>

\* what the statements of Draw leave alone
DrawFrameVars ==
    UNCHANGED <<Path, placeX, placeY, cntlPtX, cntlPtY, pathStartX, pathStartY,
                points, lastKey, ErrorMode, inPath, err, SVGPaths, letters, d,
                absRun, repRun, prevCur, dataPoints, matrixVars,
                opacity, tArg, tcol, arch, shot>>

\* r.Clear(), and the Adder of mAdder set to the filler or the dasher
DrawClear ==
    /\ pc[2] = "Clear"
    /\ mAdder' = [mAdder EXCEPT !.Adder = <<>>]
    /\ fed' = 0
    /\ pc' = Goto(pc[1], "Clear")
    /\ UNCHANGED <<g, fns>>
    /\ DrawFrameVars

\* svgp.Path.AddTo(&svgp.mAdder)
DrawAddTo ==
    /\ pc[2] = "AddTo"
    /\ mAdder' = [mAdder EXCEPT !.Adder = [i \in 1..Len(Path) |-> Fwd(mAdder.M, Path[i])]]
    /\ fed' = Len(Path)
    /\ pc' = Goto(pc[1], "AddTo")
    /\ UNCHANGED <<g, fns>>
    /\ DrawFrameVars

\* case *Gradient: the bounds taken from the extent for ObjectBoundingBox
DrawBounds ==
    /\ pc[2] = "bounds"
    /\ g' = IF PaintOf(pc[1]) = "gradient" /\ g.units = ObjectBoundingBox
            THEN [g EXCEPT !.bounds = BoundsOf(GetPathExtent(mAdder.Adder))]
            ELSE g
    /\ pc' = Goto(pc[1], "bounds")
    /\ UNCHANGED <<mAdder, fed, fns>>
    /\ DrawFrameVars

\* SetColor of the color with its opacity, or of GetColorFunction
DrawSetColor ==
    /\ pc[2] = "SetColor"
    /\ IF PaintOf(pc[1]) = "gradient"
       THEN /\ g' = IF Len(g.stops) < 2 THEN g
                    ELSE [g EXCEPT !.stops = sortStops(g.stops)]
            /\ fns' = fns \cup {ColorFunction(g', opacity)}
       ELSE /\ fns' = fns \cup {[kind |-> "color",
                                   c |-> ApplyOpacity(StopNo(3, 1).stopColor, opacity)]}
            /\ UNCHANGED g
    /\ pc' = Goto(pc[1], "SetColor")
    /\ UNCHANGED <<mAdder, fed>>
    /\ DrawFrameVars

\* rf.Draw() or r.Draw()
DrawDraw ==
    /\ pc[2] = "Draw"
    /\ pc' = Goto(pc[1], "Draw")
    /\ UNCHANGED <<mAdder, fed, g, fns>>
    /\ DrawFrameVars

NextDraw == DrawClear \/ DrawAddTo \/ DrawBounds \/ DrawSetColor \/ DrawDraw

SpecDraw == InitDraw /\ [][NextDraw]_vars

\* the scanner holds the whole path of this phase, through the matrix
PathFed ==
    /\ fed = Len(Path)
    /\ mAdder.Adder = [i \in 1..Len(Path) |-> Fwd(mAdder.M, Path[i])]

\* C28: in a fill or a stroke with a gradient of ObjectBoundingBox units,
\* Draw feeds the path to the scanner first, then sets the bounds of the
\* gradient from the extent of the scanner, and only then calls
\* GetColorFunction and draws; with UserSpaceOnUse units Draw leaves the
\* bounds as they are.
DrawOrdered ==
    [][/\ g'.bounds # g.bounds =>
             /\ PathFed
             /\ PaintOf(pc[1]) = "gradient" /\ g.units = ObjectBoundingBox
             /\ g'.bounds = BoundsOf(GetPathExtent(mAdder.Adder))
       /\ (pc[2] = "SetColor" /\ pc'[2] # "SetColor" /\ PaintOf(pc[1]) = "gradient") =>
             /\ PathFed
             /\ g.units = ObjectBoundingBox => g.bounds = BoundsOf(GetPathExtent(mAdder.Adder))
             /\ ColorFunction(g', opacity) \in fns'
       /\ (pc[2] = "Draw" /\ pc'[2] # "Draw") =>
             /\ PathFed
             /\ PaintOf(pc[1]) = "gradient" =>
                   /\ ColorFunction(g, opacity) \in fns
                   /\ g.units = ObjectBoundingBox =>
                         g.bounds = BoundsOf(GetPathExtent(mAdder.Adder))
       /\ g.units = UserSpaceOnUse => g'.bounds = g.bounds]_vars

\* a fill and a stroke with the same ObjectBoundingBox gradient have been
\* drawn through a matrix that is not the identity, the bounds are the
\* extent of the path and not the view box
DrawOrderedWitness ==
    /\ pc = <<"done", "end">>
    /\ op = <<"Draw", "gradient", "gradient">>
    /\ g.units = ObjectBoundingBox
    /\ Len(g.stops) = 2
    /\ mAdder.M # Identity
    /\ g.bounds = BoundsOf(GetPathExtent(mAdder.Adder))
    /\ g.bounds # ViewBox
    /\ g.bounds.X # 0
    /\ \E f \in fns : f.kind = "linear"

\* C29: in the commands CompilePath produced for a path it accepted, every
\* Line, QuadBezier and CubeBezier has a Start before it with no Stop
\* between the two: nothing is drawn before the first M, or after a Z
\* without a new M.
DrawnInsideSubpath ==
    (pc \in {"done", "stored"} /\ err = NoErr) =>
        \A i \in 1..Len(Path) :
            Path[i].op \in {"Line", "QuadBezier", "CubeBezier"} =>
                \E j \in 1..(i - 1) :
                    /\ Path[j].op = "Start"
                    /\ \A k \in (j + 1)..(i - 1) : Path[k].op # "Stop"

============================================================================
